---- MODULE Spec2Model ----
(***************************************************************************)
(* TCL-Web v4 tool chain: the indentation parser (v4_parser.js), the       *)
(* AST-to-bytecode compiler (v4_compiler.js) and the stack interpreter     *)
(* with its runtime (v4_interpreter.js).                                   *)
(*                                                                         *)
(* Text is a sequence of one-character strings.  JavaScript objects that   *)
(* are compared or mutated by reference (body arrays, Command nodes,       *)
(* option objects, compiled blocks) carry an allocation number.            *)
(***************************************************************************)
EXTENDS Integers, Sequences, FiniteSets, TLC

VARIABLES
    \* ---- Parser.parse -------------------------------------------------
    sourceCode,      \* the argument of parse, already split on /\r?\n/
    ppc,             \* position in parse: "analyze", "build", "done", "failed"
    processedLines,  \* result of _analyzeLines
    lineIdx,         \* index of the next line of the for loop of _buildTree
    nodes,           \* Command nodes by allocation number
    arrays,          \* body arrays by allocation number; arrays[1] is program.body
    bodyStack,       \* the local `stack` of _buildTree (numbers of body arrays)
    currentIndent,   \* the local currentIndent of _buildTree
    perror,          \* the Error thrown by parse, NoError when none
    \* ---- Compiler.compile ---------------------------------------------
    programNode,     \* the argument of compile
    cpc,             \* position in compile: "off", "compile", "done", "failed"
    cmdIdx,          \* index of the next command of the for loop of compile
    bytecode,        \* this.bytecode of the top-level Compiler
    constants,       \* this.constants of the top-level Compiler
    nextId,          \* allocation number of the next object created
    cerror,          \* the Error thrown by compile, NoError when none
    \* ---- Interpreter and RealTCLWebRuntime -----------------------------
    vpc,             \* top-level run: "off", "ready", "running", "completed", "failed"
    stack,           \* Interpreter.stack
    ip,              \* Interpreter.ip
    frames,          \* the JavaScript call stack, innermost call last
    state,           \* runtime.state
    widgets,         \* runtime.widgets
    procs,           \* runtime.procs
    watchers,        \* runtime.watchers
    fetches,         \* promises of HTTP_GET not yet settled or handled
    events,          \* number of host events delivered so far
    verror,          \* the last Error thrown out of a run, NoError when none
    lastForEach      \* history: the last forEach of setState that returned

parserVars == <<sourceCode, ppc, processedLines, lineIdx, nodes, arrays,
                bodyStack, currentIndent, perror>>

compilerVars == <<programNode, cpc, cmdIdx, bytecode, constants, nextId, cerror>>

vmVars == <<vpc, stack, ip, frames, state, widgets, procs, watchers, fetches,
           events, verror, lastForEach>>

vars == <<parserVars, compilerVars, vmVars>>

----------------------------------------------------------------------------
(* Bounds of the checked input space *)

MaxSpaces    == 4   \* longest run of leading spaces of a generated line
TreeMaxLines == 5   \* lines of a source made of command lines only
MaxLines     == 3   \* lines of a source that mixes in blank, comment and tab lines
MaxTextLen   == 6   \* characters of a one-line source over the token alphabet
MaxCmds      == 2   \* top-level commands of a generated program
MaxVMCmds    == 3   \* top-level commands of a generated program that is run
MaxStack     == 6   \* values on the operand stack
MaxFrames    == 4   \* calls on the JavaScript call stack before a RangeError
MaxWatchers  == 3   \* watchers registered for one variable
MaxListeners == 2   \* listeners added to one element
MaxFetches   == 2   \* HTTP requests in flight
MaxEvents    == 2   \* events delivered by the host
MaxDispatched == 32  \* fetches recorded per activation of run

----------------------------------------------------------------------------
(* Text helpers (String.prototype) *)

null == 0

Last(s) == s[Len(s)]

isSpace(c) == c \in {" ", "\t", "\r"}

RECURSIVE trimStart(_)
trimStart(s) == IF s # <<>> /\ isSpace(Head(s)) THEN trimStart(Tail(s)) ELSE s

RECURSIVE trimEnd(_)
trimEnd(s) ==
    IF s # <<>> /\ isSpace(Last(s)) THEN trimEnd(SubSeq(s, 1, Len(s) - 1)) ELSE s

trim(s) == trimEnd(trimStart(s))

startsWith(s, p) == Len(s) >= Len(p) /\ SubSeq(s, 1, Len(p)) = p

endsWith(s, p) == Len(s) >= Len(p) /\ SubSeq(s, Len(s) - Len(p) + 1, Len(s)) = p

\* s.slice(a, -1) for a zero-based start a
sliceToLast(s, a) == IF a + 1 > Len(s) - 1 THEN <<>> ELSE SubSeq(s, a + 1, Len(s) - 1)

\* line.match(/^\s*/)[0].length
leadingWhitespace(line) == Len(line) - Len(trimStart(line))

\* number of U+0020 characters at the start of the line
RECURSIVE leadingSpaces(_)
leadingSpaces(line) ==
    IF line # <<>> /\ Head(line) = " " THEN 1 + leadingSpaces(Tail(line)) ELSE 0

----------------------------------------------------------------------------
(* Parser._tokenize: all matches of /"[^"]*"|\S+/g, left to right *)

\* least j > i with s[j] = '"', 0 when the quote opened at i never closes
RECURSIVE closingQuote(_, _)
closingQuote(s, j) ==
    IF j > Len(s) THEN 0 ELSE IF s[j] = "\"" THEN j ELSE closingQuote(s, j + 1)

\* last index of the maximal run of non-whitespace characters starting at i
RECURSIVE runEnd(_, _)
runEnd(s, i) ==
    IF i + 1 <= Len(s) /\ ~isSpace(s[i + 1]) THEN runEnd(s, i + 1) ELSE i

RECURSIVE matchAll(_, _)
matchAll(s, i) ==
    IF i > Len(s) THEN <<>>
    ELSE IF s[i] = "\"" /\ closingQuote(s, i + 1) # 0
         THEN <<SubSeq(s, i, closingQuote(s, i + 1))>>
                  \o matchAll(s, closingQuote(s, i + 1) + 1)
    ELSE IF ~isSpace(s[i])
         THEN <<SubSeq(s, i, runEnd(s, i))>> \o matchAll(s, runEnd(s, i) + 1)
    ELSE matchAll(s, i + 1)

tokenize(line) == matchAll(line, 1)

----------------------------------------------------------------------------
(* Parser._createArgumentNode and Parser._createCommandNode *)

isVariableSubstitutionToken(token) ==
    startsWith(token, <<"{", "$">>) /\ endsWith(token, <<"}">>)

isStringLiteralToken(token) ==
    startsWith(token, <<"\"">>) /\ endsWith(token, <<"\"">>)

isOptionToken(token) == startsWith(token, <<"-">>)

createArgumentNode(token) ==
    IF isVariableSubstitutionToken(token)
    THEN [type |-> "VariableSubstitution", name |-> sliceToLast(token, 2)]
    ELSE IF isStringLiteralToken(token)
    THEN [type |-> "StringLiteral", value |-> sliceToLast(token, 1)]
    ELSE IF isOptionToken(token)
    THEN [type |-> "Option", value |-> token]
    ELSE [type |-> "Identifier", value |-> token]

createCommandNode(tokens) ==
    [type |-> "Command",
     name |-> [type |-> "Identifier", value |-> Head(tokens)],
     args |-> [i \in 1..(Len(tokens) - 1) |-> createArgumentNode(tokens[i + 1])],
     body |-> null]

----------------------------------------------------------------------------
(* Parser._analyzeLines *)

\* An Error is <<message, detail...>>; NoError stands for "nothing thrown".
NoError == <<>>
MsgOddIndent  == "Invalid indentation: must be a multiple of 2 spaces."
MsgIncrease   == "Invalid indentation increase."
MsgEmptyBlock == "Indentation error: cannot indent on an empty block."
MsgTypeError  == "TypeError"

\* `Invalid indentation: ... Found ${indentation} on line: "${line}"`
ErrOddIndent(indentation, line) == <<MsgOddIndent, indentation, line>>
\* `Invalid indentation increase. From ${currentIndent} to ${line.indent}`
ErrIncrease(from, to) == <<MsgIncrease, from, to>>
ErrEmptyBlock == <<MsgEmptyBlock>>
ErrTypeError == <<MsgTypeError>>

\* variant: the filter looks at the untrimmed line
isIgnoredLineUntrimmed(line) == line = <<>> \/ startsWith(line, <<"#">>)

\* the `continue` of the loop: comments and empty lines
isIgnoredLine(line) == trim(line) = <<>> \/ startsWith(trim(line), <<"#">>)

\* the indentation the parser computes for a line
indentationOf(line) == leadingWhitespace(line)

isOddIndentation(indentation) == indentation % 2 # 0

\* one iteration of the for loop over rawLines, on the accumulator
\* acc = [error, lines]
analyzeLine(acc, line) ==
    IF acc.error # NoError THEN acc
    ELSE IF isIgnoredLine(line) THEN acc
    ELSE IF isOddIndentation(indentationOf(line))
    THEN [acc EXCEPT !.error = ErrOddIndent(indentationOf(line), line)]
    ELSE [acc EXCEPT !.lines =
             Append(@, [indent |-> indentationOf(line) \div 2,
                        tokens |-> tokenize(trim(line))])]

RECURSIVE analyzeFrom(_, _, _)
analyzeFrom(rawLines, i, acc) ==
    IF i > Len(rawLines) THEN acc
    ELSE analyzeFrom(rawLines, i + 1, analyzeLine(acc, rawLines[i]))

analyzeLines(rawLines) == analyzeFrom(rawLines, 1, [error |-> NoError, lines |-> <<>>])

----------------------------------------------------------------------------
(* Parser._buildTree: one iteration of its for loop on the builder         *)
(* b = [nodes, arrays, stack, currentIndent, error]                        *)

newBuilder ==
    [nodes |-> <<>>, arrays |-> <<<<>>>>, stack |-> <<1>>,
     currentIndent |-> 0, error |-> NoError]

\* variant: any increase is accepted
indentIncreaseAny(indent, current) == indent > current

\* variant: off by one, an increase of two levels is accepted
indentIncreaseUpToTwo(indent, current) == indent <= current + 2

indentIncreaseOk(indent, current) == indent = current + 1

\* variant: a dedent pops a single body, whatever its depth
popCountOne(current, indent) == 1

popCount(current, indent) == current - indent

RECURSIVE popN(_, _)
popN(bodies, n) ==
    IF n = 0 \/ bodies = <<>> THEN bodies ELSE popN(SubSeq(bodies, 1, Len(bodies) - 1), n - 1)

\* variant: the command node is created but not pushed on the current body
appendCommandNowhere(b, bodies, commandNode, indent) ==
    IF bodies = <<>> THEN [b EXCEPT !.error = ErrTypeError]
    ELSE [b EXCEPT !.nodes = Append(@, commandNode),
                   !.stack = bodies,
                   !.currentIndent = indent]

\* stack[stack.length - 1].push(commandNode); currentIndent = line.indent
appendCommand(b, bodies, commandNode, indent) ==
    IF bodies = <<>> THEN [b EXCEPT !.error = ErrTypeError]
    ELSE [b EXCEPT !.nodes = Append(@, commandNode),
                   !.arrays[Last(bodies)] = Append(@, Len(b.nodes) + 1),
                   !.stack = bodies,
                   !.currentIndent = indent]

\* variant: the new array is pushed but never stored in parentCommand.body
openBodyDetached(b) ==
    [b EXCEPT !.arrays = Append(@, <<>>),
              !.stack = Append(@, Len(b.arrays) + 1)]

\* parentCommand.body = []; stack.push(parentCommand.body)
openBody(b) ==
    LET parentBody == b.arrays[Last(b.stack)]
        parentCommand == Last(parentBody)
        fresh == Len(b.arrays) + 1
    IN [b EXCEPT !.nodes[parentCommand].body = fresh,
                 !.arrays = Append(@, <<>>),
                 !.stack = Append(@, fresh)]

buildLine(b, line) ==
    LET commandNode == createCommandNode(line.tokens) IN
    IF line.indent > b.currentIndent
    THEN IF ~indentIncreaseOk(line.indent, b.currentIndent)
         THEN [b EXCEPT !.error = ErrIncrease(b.currentIndent, line.indent)]
         ELSE IF Len(b.arrays[Last(b.stack)]) = 0
         THEN [b EXCEPT !.error = ErrEmptyBlock]
         ELSE appendCommand(openBody(b), openBody(b).stack, commandNode, line.indent)
    ELSE IF line.indent < b.currentIndent
    THEN appendCommand(b, popN(b.stack, popCount(b.currentIndent, line.indent)),
                       commandNode, line.indent)
    ELSE appendCommand(b, b.stack, commandNode, line.indent)

RECURSIVE buildFrom(_, _, _)
buildFrom(lines, i, b) ==
    IF i > Len(lines) \/ b.error # NoError THEN b
    ELSE buildFrom(lines, i + 1, buildLine(b, lines[i]))

buildTree(lines) == buildFrom(lines, 1, newBuilder)

\* Parser.parse as a function of the source: the error thrown, or the tree
parse(rawLines) ==
    LET a == analyzeLines(rawLines) IN
    IF a.error # NoError THEN [error |-> a.error, nodes |-> <<>>, arrays |-> <<>>]
    ELSE LET b == buildTree(a.lines) IN
         IF b.error # NoError THEN [error |-> b.error, nodes |-> <<>>, arrays |-> <<>>]
         ELSE [error |-> NoError, nodes |-> b.nodes, arrays |-> b.arrays]

----------------------------------------------------------------------------
(* Generated sources *)

Spaces(n) == [i \in 1..n |-> " "]

SeqsUpTo(S, n) == UNION {[1..k -> S] : k \in 0..n}

\* command lines `a` indented by 0..MaxSpaces spaces
CommandLines == {Spaces(n) \o <<"a">> : n \in 0..MaxSpaces}

\* blank lines, comment lines, and command lines whose indentation has a tab
IgnorableLines ==
    {Spaces(n) \o c : n \in {0, 1, MaxSpaces}, c \in {<<>>, <<"#">>}}
        \cup {<<" ", "\t", "#">>}

TabLines == {<<" ", "\t", "a">>, <<"\t", "\t", "a">>}

MixedLines == {Spaces(n) \o <<"a">> : n \in {0, 1, 2, MaxSpaces}}
                  \cup IgnorableLines \cup TabLines

TokenAlphabet == {"a", " ", "\"", "{", "$", "}", "-"}

TextLines == {<<"a", " ">> \o t : t \in SeqsUpTo(TokenAlphabet, MaxTextLen - 2)}

Sources ==
    SeqsUpTo(CommandLines, TreeMaxLines)
        \cup SeqsUpTo(MixedLines, MaxLines)
        \cup {<<t>> : t \in TextLines}

----------------------------------------------------------------------------
(* The components that have not been constructed or called yet *)

ParserOff ==
    /\ sourceCode = <<>>
    /\ ppc = "off"
    /\ processedLines = <<>>
    /\ lineIdx = 1
    /\ nodes = <<>>
    /\ arrays = <<<<>>>>
    /\ bodyStack = <<1>>
    /\ currentIndent = 0
    /\ perror = NoError

\* new Interpreter(rootElementId), run not called
NewInterpreter(position) ==
    /\ vpc = position
    /\ stack = <<>>
    /\ ip = 0
    /\ frames = <<>>
    /\ state = <<>>
    /\ widgets = <<>>
    /\ procs = <<>>
    /\ watchers = <<>>
    /\ fetches = <<>>
    /\ events = 0
    /\ verror = NoError
    /\ lastForEach = [registered |-> <<>>, fired |-> <<>>]

----------------------------------------------------------------------------
(* Parser.parse as a state machine *)

InitParser ==
    /\ sourceCode \in Sources
    /\ ppc = "analyze"
    /\ processedLines = <<>>
    /\ lineIdx = 1
    /\ nodes = newBuilder.nodes
    /\ arrays = newBuilder.arrays
    /\ bodyStack = newBuilder.stack
    /\ currentIndent = newBuilder.currentIndent
    /\ perror = NoError
    /\ programNode = [type |-> "Program", body |-> <<>>]
    /\ cpc = "off"
    /\ cmdIdx = 1
    /\ bytecode = <<>>
    /\ constants = <<>>
    /\ nextId = 1
    /\ cerror = NoError
    /\ NewInterpreter("off")

\* const lines = this._analyzeLines(sourceCode)
AnalyzeLines ==
    /\ ppc = "analyze"
    /\ LET a == analyzeLines(sourceCode) IN
       /\ perror' = a.error
       /\ ppc' = IF a.error # NoError THEN "failed" ELSE "build"
       /\ processedLines' = IF a.error # NoError THEN <<>> ELSE a.lines
    /\ UNCHANGED <<sourceCode, lineIdx, nodes, arrays, bodyStack, currentIndent>>
    /\ UNCHANGED <<compilerVars, vmVars>>

builderNow ==
    [nodes |-> nodes, arrays |-> arrays, stack |-> bodyStack,
     currentIndent |-> currentIndent, error |-> NoError]

\* one iteration of `for (const line of lines)` in _buildTree
BuildLine ==
    /\ ppc = "build"
    /\ lineIdx <= Len(processedLines)
    /\ LET b == buildLine(builderNow, processedLines[lineIdx]) IN
       /\ perror' = b.error
       /\ ppc' = IF b.error # NoError THEN "failed" ELSE "build"
       /\ nodes' = b.nodes
       /\ arrays' = b.arrays
       /\ bodyStack' = b.stack
       /\ currentIndent' = b.currentIndent
    /\ lineIdx' = lineIdx + 1
    /\ UNCHANGED <<sourceCode, processedLines>>
    /\ UNCHANGED <<compilerVars, vmVars>>

\* return program
ReturnProgram ==
    /\ ppc = "build"
    /\ lineIdx > Len(processedLines)
    /\ ppc' = "done"
    /\ UNCHANGED <<sourceCode, processedLines, lineIdx, nodes, arrays, bodyStack,
                   currentIndent, perror>>
    /\ UNCHANGED <<compilerVars, vmVars>>

NextParser == AnalyzeLines \/ BuildLine \/ ReturnProgram

SpecParser == InitParser /\ [][NextParser]_vars

----------------------------------------------------------------------------
(* JavaScript values.  A string is its text wrapped in a tagged record;      *)
(* objects created by an object literal carry their allocation number, so   *)
(* that equality of records is identity of objects.                         *)

String(v) == [t |-> "string", v |-> v]

undefined == [t |-> "undefined"]

\* { k1: v1, ... }: fields is the sequence of <<key, value>> in insertion order
Object(id, fields) == [t |-> "object", id |-> id, fields |-> fields]

\* { bytecode, constants } as returned by Compiler.compile
Block(id, code, pool) == [t |-> "block", id |-> id, bytecode |-> code, constants |-> pool]

isString(value) == value.t = "string"

----------------------------------------------------------------------------
(* The words of the language and of the runtime, as text *)

W_set == <<"s", "e", "t">>
W_l == <<"l">>
W_label == <<"l", "a", "b", "e", "l">>
W_b == <<"b">>
W_button == <<"b", "u", "t", "t", "o", "n">>
W_i == <<"i">>
W_input == <<"i", "n", "p", "u", "t">>
W_listbox == <<"l", "i", "s", "t", "b", "o", "x">>
W_canvas == <<"c", "a", "n", "v", "a", "s">>
W_c == <<"c">>
W_container == <<"c", "o", "n", "t", "a", "i", "n", "e", "r">>
W_conf == <<"c", "o", "n", "f">>
W_config == <<"c", "o", "n", "f", "i", "g">>
W_pack == <<"p", "a", "c", "k">>
W_bind == <<"b", "i", "n", "d">>
W_watch == <<"w", "a", "t", "c", "h">>
W_proc == <<"p", "r", "o", "c">>
W_httpdot_get == <<"h", "t", "t", "p", ".", "g", "e", "t">>
W_dot_click == <<".", "c", "l", "i", "c", "k">>
W_dot_key == <<".", "k", "e", "y">>
W_dot_callback == <<".", "c", "a", "l", "l", "b", "a", "c", "k">>
W_dot_error == <<".", "e", "r", "r", "o", "r">>
W_dash_text == <<"-", "t", "e", "x", "t">>
W_dash_bg == <<"-", "b", "g">>
W_dash_side == <<"-", "s", "i", "d", "e">>
W_dash_items == <<"-", "i", "t", "e", "m", "s">>
W_top == <<"t", "o", "p">>
W_initialText == <<"i", "n", "i", "t", "i", "a", "l", "T", "e", "x", "t">>
W_LABEL == <<"L", "A", "B", "E", "L">>
W_BUTTON == <<"B", "U", "T", "T", "O", "N">>
W_INPUT == <<"I", "N", "P", "U", "T">>
W_LISTBOX == <<"L", "I", "S", "T", "B", "O", "X">>
W_CANVAS == <<"C", "A", "N", "V", "A", "S">>
W_http_response == <<"h", "t", "t", "p", "_", "r", "e", "s", "p", "o", "n", "s", "e">>
W_error == <<"e", "r", "r", "o", "r">>
W_px == <<"p", "x">>

----------------------------------------------------------------------------
(* AST nodes as the compiler reads them *)

Identifier(value) == [type |-> "Identifier", value |-> value]
StringLiteral(value) == [type |-> "StringLiteral", value |-> value]
Option(value) == [type |-> "Option", value |-> value]
VariableSubstitution(name) == [type |-> "VariableSubstitution", name |-> name]

\* Command.body: null, or an array of Commands
nullBody == [isNull |-> TRUE]
Body(commands) == [isNull |-> FALSE, items |-> commands]

Command(name, args, body) ==
    [type |-> "Command", name |-> Identifier(name), args |-> args, body |-> body]

\* args[i] for a zero-based i
argAt(args, i) == IF i < Len(args) THEN args[i + 1] ELSE undefined

\* node.value
valueOf(node) == IF "value" \in DOMAIN node THEN String(node.value) ELSE undefined

\* node.name of a VariableSubstitution
nameOf(node) == IF "name" \in DOMAIN node THEN String(node.name) ELSE undefined

----------------------------------------------------------------------------
(* Compiler: c = [bytecode, constants, nextId, error] is one Compiler       *)
(* instance (nextId is the allocator shared by all instances)               *)

MsgCompileTypeError == "TypeError"
ErrCompileTypeError == <<MsgCompileTypeError>>

newCompiler(id) == [bytecode |-> <<>>, constants |-> <<>>, nextId |-> id, error |-> NoError]

throw(c, error) == IF c.error # NoError THEN c ELSE [c EXCEPT !.error = error]

\* this.bytecode.push([opcode, ...operands])
emit(c, instruction) ==
    IF c.error # NoError THEN c ELSE [c EXCEPT !.bytecode = Append(@, instruction)]

\* Array.prototype.indexOf (strict equality), zero-based, -1 when absent
RECURSIVE indexOfFrom(_, _, _)
indexOfFrom(pool, value, i) ==
    IF i > Len(pool) THEN -1
    ELSE IF pool[i] = value THEN i - 1
    ELSE indexOfFrom(pool, value, i + 1)

indexOf(pool, value) == indexOfFrom(pool, value, 1)

\* variant: every call appends, no lookup
addConstantAlwaysPush(c, value) ==
    IF c.error # NoError THEN [c |-> c, index |-> -1]
    ELSE [c |-> [c EXCEPT !.constants = Append(@, value)],
          index |-> Len(c.constants)]

\* addConstant returns the index and may grow the pool: [c, index]
addConstant(c, value) ==
    IF c.error # NoError THEN [c |-> c, index |-> -1]
    ELSE IF indexOf(c.constants, value) > -1
    THEN [c |-> c, index |-> indexOf(c.constants, value)]
    ELSE [c |-> [c EXCEPT !.constants = Append(@, value)],
          index |-> Len(c.constants)]

\* this.emit(opcode, this.addConstant(value))
emitWithConstant(c, opcode, value) ==
    emit(addConstant(c, value).c, <<opcode, addConstant(c, value).index>>)

compileArg(c, argNode) ==
    IF c.error # NoError THEN c
    ELSE IF argNode = undefined THEN throw(c, ErrCompileTypeError)
    ELSE IF argNode.type = "VariableSubstitution"
    THEN emitWithConstant(c, "PUSH_VAR", nameOf(argNode))
    ELSE emitWithConstant(c, "PUSH_CONST", valueOf(argNode))

\* a fresh object literal
allocate(c) == IF c.error # NoError THEN c ELSE [c EXCEPT !.nextId = @ + 1]

\* name.startsWith('l')
nameStartsWithL(name) == startsWith(name, <<"l">>)

LowerCase == <<"a", "b", "c", "d", "e", "f", "g", "h", "i", "j", "k", "l", "m",
               "n", "o", "p", "q", "r", "s", "t", "u", "v", "w", "x", "y", "z">>
UpperCase == <<"A", "B", "C", "D", "E", "F", "G", "H", "I", "J", "K", "L", "M",
               "N", "O", "P", "Q", "R", "S", "T", "U", "V", "W", "X", "Y", "Z">>

upperChar(ch) ==
    IF \E k \in 1..Len(LowerCase) : LowerCase[k] = ch
    THEN UpperCase[CHOOSE k \in 1..Len(LowerCase) : LowerCase[k] = ch]
    ELSE ch

\* name.toUpperCase()
toUpperCase(name) == [k \in 1..Len(name) |-> upperChar(name[k])]

RECURSIVE compileCommand(_, _)
RECURSIVE compileCommandsFrom(_, _, _)
RECURSIVE compileBlock(_, _)
RECURSIVE compileEventsFrom(_, _, _)

\* Compiler.compile on a fresh or given instance: the for loop over body
compileBody(c, body) ==
    IF c.error # NoError THEN c
    ELSE IF body.isNull THEN throw(c, ErrCompileTypeError)
    ELSE compileCommandsFrom(c, body.items, 1)

compileCommandsFrom(c, commands, i) ==
    IF i > Len(commands) \/ c.error # NoError THEN c
    ELSE compileCommandsFrom(compileCommand(c, commands[i]), commands, i + 1)

\* variant: the block compiler starts from the pool of the enclosing compiler
compileBlockInherit(c, commandNode) ==
    IF c.error # NoError THEN [c |-> c, index |-> -1]
    ELSE LET blockCompiler == compileBody([newCompiler(c.nextId) EXCEPT !.constants = c.constants],
                                         commandNode.body) IN
         IF blockCompiler.error # NoError
         THEN [c |-> [c EXCEPT !.error = blockCompiler.error,
                               !.nextId = blockCompiler.nextId],
               index |-> -1]
         ELSE addConstant([c EXCEPT !.nextId = blockCompiler.nextId + 1],
                          Block(blockCompiler.nextId, blockCompiler.bytecode,
                                blockCompiler.constants))

\* compileBlock returns the index of the pooled block: [c, index]
compileBlock(c, commandNode) ==
    IF c.error # NoError THEN [c |-> c, index |-> -1]
    ELSE LET blockCompiler == compileBody(newCompiler(c.nextId), commandNode.body) IN
         IF blockCompiler.error # NoError
         THEN [c |-> [c EXCEPT !.error = blockCompiler.error,
                               !.nextId = blockCompiler.nextId],
               index |-> -1]
         ELSE addConstant([c EXCEPT !.nextId = blockCompiler.nextId + 1],
                          Block(blockCompiler.nextId, blockCompiler.bytecode,
                                blockCompiler.constants))

\* this.emit(Opcodes.DEF_BLOCK, this.compileBlock(commandNode))
emitDefBlock(c, commandNode) ==
    emit(compileBlock(c, commandNode).c,
         <<"DEF_BLOCK", compileBlock(c, commandNode).index>>)

\* variant: the event name is pushed before the block of the event
compileEventsFromNameFirst(c, eventNodes, i) ==
    IF i > Len(eventNodes) \/ c.error # NoError THEN c
    ELSE compileEventsFrom(emitDefBlock(compileArg(c, eventNodes[i].name), eventNodes[i]),
                           eventNodes, i + 1)

\* the loops of `bind` and `http.get` over command.body
compileEventsFrom(c, eventNodes, i) ==
    IF i > Len(eventNodes) \/ c.error # NoError THEN c
    ELSE compileEventsFrom(compileArg(emitDefBlock(c, eventNodes[i]), eventNodes[i].name),
                           eventNodes, i + 1)

compileEvents(c, body) ==
    IF c.error # NoError THEN c
    ELSE IF body.isNull THEN throw(c, ErrCompileTypeError)
    ELSE compileEventsFrom(c, body.items, 1)

\* command.body.length
bodyLength(body) == IF body.isNull THEN 0 ELSE Len(body.items)

\* the loop of `conf` / `pack` over options = args.slice(1), two at a time
RECURSIVE compileOptionsFrom(_, _, _)
compileOptionsFrom(c, options, i) ==
    IF i >= Len(options) \/ c.error # NoError THEN c
    ELSE compileOptionsFrom(
             compileArg(compileArg(c, argAt(options, i + 1)), argAt(options, i)),
             options, i + 2)

\* the loop of `proc` over args[1..], and of the default case over all args
RECURSIVE compileArgsFrom(_, _, _)
compileArgsFrom(c, args, i) ==
    IF i >= Len(args) \/ c.error # NoError THEN c
    ELSE compileArgsFrom(compileArg(c, argAt(args, i)), args, i + 1)

\* cases 'l', 'label', 'b', 'button'
compileLabelOrButton(c, name, args) ==
    IF argAt(args, 1) = undefined THEN throw(c, ErrCompileTypeError)
    ELSE LET key == IF nameStartsWithL(name) THEN W_initialText ELSE W_label
             options == Object(c.nextId, <<<<key, valueOf(argAt(args, 1))>>>>)
             type == IF nameStartsWithL(name) THEN W_LABEL ELSE W_BUTTON
         IN emit(compileArg(
                     emitWithConstant(
                         emitWithConstant(allocate(c), "PUSH_CONST", options),
                         "PUSH_CONST", String(type)),
                     argAt(args, 0)),
                 <<"CREATE_WIDGET">>)

\* cases 'i', 'input', 'listbox', 'canvas'
compileOtherWidget(c, name, args) ==
    emit(compileArg(
             emitWithConstant(
                 emitWithConstant(allocate(c), "PUSH_CONST", Object(c.nextId, <<>>)),
                 "PUSH_CONST", String(toUpperCase(name))),
             argAt(args, 0)),
         <<"CREATE_WIDGET">>)

\* cases 'conf', 'pack'
compileConfOrPack(c, name, args) ==
    LET options == SubSeq(args, 2, Len(args)) IN
    emit(compileArg(
             emit(compileOptionsFrom(c, options, 0),
                  <<"BUILD_OBJ", Len(options) \div 2>>),
             argAt(args, 0)),
         <<IF name = W_conf THEN "UPDATE_WIDGET" ELSE "PACK_WIDGET">>)

\* variant: the name is pushed before the value
compileSetNameFirst(c, args) ==
    emit(compileArg(compileArg(c, argAt(args, 0)), argAt(args, 1)), <<"SET_STATE">>)

\* case 'set'
compileSet(c, args) ==
    emit(compileArg(compileArg(c, argAt(args, 1)), argAt(args, 0)), <<"SET_STATE">>)

compileCommand(c, command) ==
    LET name == command.name.value
        args == command.args
    IN
    IF c.error # NoError THEN c
    ELSE CASE name = W_set -> compileSet(c, args)
           [] name \in {W_l, W_label, W_b, W_button} ->
              compileLabelOrButton(c, name, args)
           [] name \in {W_i, W_input, W_listbox, W_canvas} ->
              compileOtherWidget(c, name, args)
           [] name \in {W_conf, W_pack} ->
              compileConfOrPack(c, name, args)
           [] name = W_bind ->
              emit(compileArg(compileEvents(c, command.body), argAt(args, 0)),
                   <<"BIND_WIDGET", bodyLength(command.body)>>)
           [] name = W_watch ->
              emit(compileArg(emitDefBlock(c, command), argAt(args, 0)),
                   <<"WATCH_STATE">>)
           [] name = W_proc ->
              emit(compileArg(compileArgsFrom(emitDefBlock(c, command), args, 1),
                              argAt(args, 0)),
                   <<"DEF_PROC", Len(args) - 1>>)
           [] name = W_httpdot_get ->
              emit(compileArg(compileEvents(c, command.body), argAt(args, 0)),
                   <<"HTTP_GET", bodyLength(command.body)>>)
           [] OTHER ->
              emit(emitWithConstant(compileArgsFrom(c, args, 0), "PUSH_CONST",
                                    String(name)),
                   <<"CALL_PROC", Len(args)>>)

\* Compiler.compile of a Program with a new Compiler: the chunk, or the error
compile(program) ==
    compileCommandsFrom(newCompiler(1), program.body, 1)

----------------------------------------------------------------------------
(* Generated programs *)

Leaf(name, args) == Command(name, args, nullBody)

\* one-letter names
A == <<"a">>
B == <<"b">>
P == <<"p">>
W == <<"w">>
X == <<"x">>

\* set <name> "<value>"
SetString(name, value) == Leaf(W_set, <<Identifier(name), StringLiteral(value)>>)
\* set <name> <word>
SetWord(name, value) == Leaf(W_set, <<Identifier(name), Identifier(value)>>)
\* set <name> {$<variable>}
SetVar(name, variable) ==
    Leaf(W_set, <<Identifier(name), VariableSubstitution(variable)>>)

CompilerCommands ==
    { SetString(A, X), SetString(B, X), SetWord(X, A),
      Leaf(W_set, <<Identifier(A)>>),
      Leaf(W_l, <<Identifier(W), StringLiteral(X)>>),
      Leaf(W_b, <<Identifier(W), StringLiteral(X)>>),
      Leaf(W_l, <<Identifier(W)>>),
      Leaf(W_i, <<Identifier(A)>>),
      Leaf(W_i, <<Identifier(B)>>),
      Leaf(W_listbox, <<Identifier(W)>>),
      Leaf(W_input, <<>>),
      Leaf(W_conf, <<Identifier(W), Option(W_dash_text), StringLiteral(X),
                     Option(W_dash_bg), VariableSubstitution(A)>>),
      Leaf(W_conf, <<Identifier(W), Option(W_dash_text)>>),
      Leaf(W_pack, <<Identifier(W), Option(W_dash_side), Identifier(W_top)>>),
      Leaf(W_config, <<Identifier(W), Option(W_dash_text), StringLiteral(X)>>),
      Command(W_bind, <<Identifier(W)>>,
              Body(<<Command(W_dot_click, <<>>, Body(<<SetString(A, X)>>)),
                     Command(W_dot_key, <<>>, Body(<<SetString(A, X)>>))>>)),
      Command(W_watch, <<Identifier(A)>>,
              Body(<<SetString(B, X), SetString(X, X)>>)),
      Leaf(W_watch, <<Identifier(A)>>),
      Command(W_watch, <<Identifier(A)>>,
              Body(<<Command(W_bind, <<Identifier(W)>>,
                             Body(<<Command(W_dot_click, <<>>,
                                            Body(<<SetString(B, X)>>))>>))>>)),
      Command(W_proc, <<Identifier(P), Identifier(A), Identifier(B)>>,
              Body(<<SetVar(X, A)>>)),
      Command(W_httpdot_get, <<StringLiteral(X)>>,
              Body(<<Command(W_dot_callback, <<>>, Body(<<SetString(A, X)>>)),
                     Command(W_dot_error, <<>>, Body(<<SetString(B, X)>>))>>)),
      Command(W_httpdot_get, <<StringLiteral(X)>>,
              Body(<<Command(W_dot_error, <<>>, nullBody)>>)),
      Leaf(P, <<Identifier(X), Identifier(X)>>),
      Command(W_c, <<Identifier(W)>>,
              Body(<<Leaf(W_l, <<Identifier(X), StringLiteral(X)>>)>>)) }

CompilerPrograms ==
    {[type |-> "Program", body |-> body] : body \in SeqsUpTo(CompilerCommands, MaxCmds)}

----------------------------------------------------------------------------
(* Compiler.compile as a state machine *)

InitCompiler ==
    /\ programNode \in CompilerPrograms
    /\ cpc = "compile"
    /\ cmdIdx = 1
    /\ bytecode = <<>>
    /\ constants = <<>>
    /\ nextId = 1
    /\ cerror = NoError
    /\ ParserOff
    /\ NewInterpreter("off")

compilerNow ==
    [bytecode |-> bytecode, constants |-> constants, nextId |-> nextId, error |-> NoError]

\* one iteration of `for (const command of programNode.body)` in compile
CompileCommand ==
    /\ cpc = "compile"
    /\ cmdIdx <= Len(programNode.body)
    /\ LET c == compileCommand(compilerNow, programNode.body[cmdIdx]) IN
       /\ cerror' = c.error
       /\ cpc' = IF c.error # NoError THEN "failed" ELSE "compile"
       /\ bytecode' = c.bytecode
       /\ constants' = c.constants
       /\ nextId' = c.nextId
    /\ cmdIdx' = cmdIdx + 1
    /\ UNCHANGED programNode
    /\ UNCHANGED <<parserVars, vmVars>>

\* return { bytecode: this.bytecode, constants: this.constants }
ReturnChunk ==
    /\ cpc = "compile"
    /\ cmdIdx > Len(programNode.body)
    /\ cpc' = "done"
    /\ UNCHANGED <<programNode, cmdIdx, bytecode, constants, nextId, cerror>>
    /\ UNCHANGED <<parserVars, vmVars>>

NextCompiler == CompileCommand \/ ReturnChunk

SpecCompiler == InitCompiler /\ [][NextCompiler]_vars

----------------------------------------------------------------------------
(* Values of the interpreter: strings, undefined, objects, blocks, arrays   *)
(* and Errors.  Objects built while running are compared by their content.  *)

W_undefined == <<"u", "n", "d", "e", "f", "i", "n", "e", "d">>
W_objectObject == <<"[", "o", "b", "j", "e", "c", "t", " ", "O", "b", "j", "e", "c", "t", "]">>
W_Error == <<"E", "r", "r", "o", "r">>
W_dash_fg == <<"-", "f", "g">>
W_dash_width == <<"-", "w", "i", "d", "t", "h">>
W_dash_height == <<"-", "h", "e", "i", "g", "h", "t">>
W_dash_value == <<"-", "v", "a", "l", "u", "e">>
W_dash_fill == <<"-", "f", "i", "l", "l">>
W_dash_expand == <<"-", "e", "x", "p", "a", "n", "d">>
W_dash_padx == <<"-", "p", "a", "d", "x">>
W_dash_pady == <<"-", "p", "a", "d", "y">>
W_x == <<"x">>
W_y == <<"y">>
W_both == <<"b", "o", "t", "h">>
W_yes == <<"y", "e", "s">>
W_100pct == <<"1", "0", "0", "%">>
W_1 == <<"1">>
W_comma == <<",">>
W_width == <<"w", "i", "d", "t", "h">>
W_height == <<"h", "e", "i", "g", "h", "t">>

\* an array value (only a JSON response can hold one)
List(items) == [t |-> "list", items |-> items]

\* an Error object as a value (the err of .catch)
ErrorValue(error) == [t |-> "error", error |-> error]

MsgRangeError == "RangeError"
ErrRangeError == <<MsgRangeError>>
MsgProcedureNotFound == "Procedure not found: "
ErrProcedureNotFound(procName) == <<MsgProcedureNotFound, procName>>
MsgUnknownOpcode == "Unknown opcode: "
ErrUnknownOpcode(opcode) == <<MsgUnknownOpcode, opcode>>
MsgFetchFailed == "fetch failed"
ErrFetchFailed == <<MsgFetchFailed>>

\* ToBoolean
truthy(value) ==
    CASE value.t = "undefined" -> FALSE
      [] value.t = "string" -> value.v # <<>>
      [] OTHER -> TRUE

RECURSIVE joinFrom(_, _)
\* ToString: `${value}`, and the key of obj[value]
toStringJS(value) ==
    CASE value.t = "string" -> value.v
      [] value.t = "undefined" -> W_undefined
      [] value.t = "list" -> joinFrom(value.items, 1)
      [] value.t = "error" -> W_Error
      [] OTHER -> W_objectObject

\* Array.prototype.join(",")
joinFrom(items, i) ==
    IF i > Len(items) THEN <<>>
    ELSE IF i = Len(items) THEN toStringJS(items[i])
    ELSE toStringJS(items[i]) \o W_comma \o joinFrom(items, i + 1)

\* Map and plain object: entries <<key, value>> in insertion order
entryIndex(m, key) ==
    IF \E k \in 1..Len(m) : m[k][1] = key
    THEN CHOOSE k \in 1..Len(m) : m[k][1] = key
    ELSE 0

\* Map.prototype.has
mapHas(m, key) == entryIndex(m, key) # 0

\* Map.prototype.get
mapGet(m, key) == IF mapHas(m, key) THEN m[entryIndex(m, key)][2] ELSE undefined

\* Map.prototype.set: a present key keeps its place
mapSet(m, key, value) ==
    IF mapHas(m, key) THEN [m EXCEPT ![entryIndex(m, key)] = <<key, value>>]
    ELSE Append(m, <<key, value>>)

\* value[key] for a key given as text; the caller excludes undefined
getProperty(value, key) ==
    IF value.t = "object" THEN mapGet(value.fields, key) ELSE undefined

\* obj[key] = value
setProperty(fields, key, value) == mapSet(fields, toStringJS(key), value)

\* Array.prototype.pop on this.stack: undefined when the stack is empty
top(s) == IF s = <<>> THEN undefined ELSE s[Len(s)]
pop(s) == IF s = <<>> THEN <<>> ELSE SubSeq(s, 1, Len(s) - 1)

\* constants[operands[0]]; an absent operand is written -1 and indexes nothing
constantAt(pool, index) ==
    IF index >= 0 /\ index < Len(pool) THEN pool[index + 1] ELSE undefined

\* const [opcode, ...operands] = instruction
opcodeOf(instruction) == instruction[1]
operandOf(instruction) == IF Len(instruction) > 1 THEN instruction[2] ELSE -1

----------------------------------------------------------------------------
(* RealTCLWebRuntime.  A DOM element is [tagName, id, props, listeners]:    *)
(* props holds, in order of first assignment, the values assigned to the    *)
(* element's properties (the browser's own coercion of an assigned value    *)
(* is outside the program); listeners is the addEventListener list.         *)

createElement(tagName) ==
    [tagName |-> tagName, id |-> undefined, props |-> <<>>, listeners |-> <<>>]

assign(element, property, value) ==
    [element EXCEPT !.props = mapSet(@, property, value)]

\* options.key || ''
orEmpty(value) == IF truthy(value) THEN value ELSE String(<<>>)

\* `if (options.width) element.width = options.width` and the same for height
canvasSize(element, options, key, property) ==
    IF truthy(getProperty(options, key))
    THEN assign(element, property, getProperty(options, key))
    ELSE element

\* the switch of createWidget: [element, error]
newWidget(type, options) ==
    CASE type = String(W_LABEL) ->
           IF options.t = "undefined"
           THEN [element |-> createElement("LABEL"), error |-> ErrTypeError]
           ELSE [element |-> assign(createElement("LABEL"), "textContent",
                                    orEmpty(getProperty(options, W_initialText))),
                 error |-> NoError]
      [] type = String(W_BUTTON) ->
           IF options.t = "undefined"
           THEN [element |-> createElement("BUTTON"), error |-> ErrTypeError]
           ELSE [element |-> assign(createElement("BUTTON"), "textContent",
                                    orEmpty(getProperty(options, W_label))),
                 error |-> NoError]
      [] type = String(W_INPUT) ->
           [element |-> createElement("INPUT"), error |-> NoError]
      [] type = String(W_LISTBOX) ->
           [element |-> createElement("UL"), error |-> NoError]
      [] type = String(W_CANVAS) ->
           IF options.t = "undefined"
           THEN [element |-> createElement("CANVAS"), error |-> ErrTypeError]
           ELSE [element |-> canvasSize(canvasSize(createElement("CANVAS"),
                                                   options, W_width, "width"),
                                        options, W_height, "height"),
                 error |-> NoError]
      [] OTHER ->
           [element |-> createElement("DIV"), error |-> NoError]

\* createWidget(name, type, options): [widgets, error]
createWidget(registry, name, type, options) ==
    IF newWidget(type, options).error # NoError
    THEN [widgets |-> registry, error |-> newWidget(type, options).error]
    ELSE [widgets |-> mapSet(registry, name,
                             [newWidget(type, options).element EXCEPT !.id = name]),
          error |-> NoError]

\* one case of the switch of updateWidget: [element, error]
updateOption(element, key, value) ==
    CASE key = W_dash_text -> [element |-> assign(element, "textContent", value), error |-> NoError]
      [] key = W_dash_bg -> [element |-> assign(element, "style.backgroundColor", value), error |-> NoError]
      [] key = W_dash_fg -> [element |-> assign(element, "style.color", value), error |-> NoError]
      [] key = W_dash_width ->
           [element |-> assign(element, "style.width", String(toStringJS(value) \o W_px)),
            error |-> NoError]
      [] key = W_dash_height ->
           [element |-> assign(element, "style.height", String(toStringJS(value) \o W_px)),
            error |-> NoError]
      [] key = W_dash_value -> [element |-> assign(element, "value", value), error |-> NoError]
      [] key = W_dash_items ->
           IF element.tagName # "UL" THEN [element |-> element, error |-> NoError]
           ELSE IF value.t = "list"
           THEN [element |-> assign(element, "children", value.items), error |-> NoError]
           ELSE [element |-> assign(element, "children", <<>>), error |-> ErrTypeError]
      [] OTHER -> [element |-> element, error |-> NoError]

\* `for (const key in options)` of updateWidget from the i-th key on
RECURSIVE updateFrom(_, _, _)
updateFrom(element, fields, i) ==
    IF i > Len(fields) THEN [element |-> element, error |-> NoError]
    ELSE IF updateOption(element, fields[i][1], fields[i][2]).error # NoError
    THEN updateOption(element, fields[i][1], fields[i][2])
    ELSE updateFrom(updateOption(element, fields[i][1], fields[i][2]).element,
                    fields, i + 1)

\* the enumerable keys of a value with their values (none but for an object)
ownEntries(value) == IF value.t = "object" THEN value.fields ELSE <<>>

\* updateWidget(name, options): [widgets, error]
updateWidget(registry, name, options) ==
    IF ~mapHas(registry, name) THEN [widgets |-> registry, error |-> NoError]
    ELSE [widgets |-> mapSet(registry, name,
                             updateFrom(mapGet(registry, name), ownEntries(options), 1).element),
          error |-> updateFrom(mapGet(registry, name), ownEntries(options), 1).error]

\* one case of the switch of packWidget
packOption(element, key, value) ==
    CASE key = W_dash_fill ->
           IF value = String(W_x) THEN assign(element, "style.width", String(W_100pct))
           ELSE IF value = String(W_y) THEN assign(element, "style.height", String(W_100pct))
           ELSE IF value = String(W_both)
           THEN assign(assign(element, "style.width", String(W_100pct)),
                       "style.height", String(W_100pct))
           ELSE element
      [] key = W_dash_expand ->
           IF value = String(W_yes) THEN assign(element, "style.flexGrow", String(W_1))
           ELSE element
      [] key = W_dash_padx ->
           assign(assign(element, "style.paddingRight", String(toStringJS(value) \o W_px)),
                  "style.paddingLeft", String(toStringJS(value) \o W_px))
      [] key = W_dash_pady ->
           assign(assign(element, "style.paddingBottom", String(toStringJS(value) \o W_px)),
                  "style.paddingTop", String(toStringJS(value) \o W_px))
      [] OTHER -> element

RECURSIVE packFrom(_, _, _)
packFrom(element, fields, i) ==
    IF i > Len(fields) THEN element
    ELSE packFrom(packOption(element, fields[i][1], fields[i][2]), fields, i + 1)

\* variant: packing a name that is not registered registers a div under it
packWidgetRegisters(registry, name, options) ==
    IF ~mapHas(registry, name)
    THEN mapSet(registry, name, [createElement("DIV") EXCEPT !.id = name])
    ELSE mapSet(registry, name, packFrom(mapGet(registry, name), ownEntries(options), 1))

\* packWidget(name, options)
packWidget(registry, name, options) ==
    IF ~mapHas(registry, name) THEN registry
    ELSE mapSet(registry, name, packFrom(mapGet(registry, name), ownEntries(options), 1))

\* bindWidget(name, eventHandlers): addEventListener for every key
bindWidget(registry, name, handlers) ==
    IF ~mapHas(registry, name) THEN registry
    ELSE mapSet(registry, name,
                [mapGet(registry, name) EXCEPT !.listeners = @ \o handlers])

\* watchState(varName, callback)
watchState(registry, varName, callback) ==
    mapSet(registry, varName, Append(mapGet(IF mapHas(registry, varName) THEN registry
                                            ELSE mapSet(registry, varName, <<>>),
                                            varName),
                                     callback))

\* defineProc(name, procData)
defineProc(registry, name, procData) == mapSet(registry, name, procData)

----------------------------------------------------------------------------
(* Interpreter.run: the loops inside one instruction *)

\* the for loop of BUILD_OBJ: [stack, fields]
RECURSIVE buildObj(_, _, _)

\* variant: the first value popped is taken as the value, the second as the key
buildObjValueFirst(s, keyCount, fields) ==
    IF keyCount <= 0 THEN [stack |-> s, fields |-> fields]
    ELSE buildObj(pop(pop(s)), keyCount - 1, setProperty(fields, top(pop(s)), top(s)))

buildObj(s, keyCount, fields) ==
    IF keyCount <= 0 THEN [stack |-> s, fields |-> fields]
    ELSE buildObj(pop(pop(s)), keyCount - 1, setProperty(fields, top(s), top(pop(s))))

\* String.prototype.substring(1)
substring1(text) == IF Len(text) <= 1 THEN <<>> ELSE SubSeq(text, 2, Len(text))

\* the for loop of BIND_WIDGET: [stack, handlers, error]
RECURSIVE bindHandlers(_, _, _)
\* variant: the event name is registered as written, with its leading `.`
bindHandlersKeepDot(s, eventCount, handlers) ==
    IF eventCount <= 0 THEN [stack |-> s, handlers |-> handlers, error |-> NoError]
    ELSE IF top(s).t # "string"
    THEN [stack |-> pop(s), handlers |-> handlers, error |-> ErrTypeError]
    ELSE bindHandlers(pop(pop(s)), eventCount - 1,
                      mapSet(handlers, top(s).v, top(pop(s))))

bindHandlers(s, eventCount, handlers) ==
    IF eventCount <= 0 THEN [stack |-> s, handlers |-> handlers, error |-> NoError]
    ELSE IF top(s).t # "string"
    THEN [stack |-> pop(s), handlers |-> handlers, error |-> ErrTypeError]
    ELSE bindHandlers(pop(pop(s)), eventCount - 1,
                      mapSet(handlers, substring1(top(s).v), top(pop(s))))

\* the for loop of DEF_PROC: [stack, args], args in popping order
RECURSIVE popArgs(_, _, _)
popArgs(s, argCount, args) ==
    IF argCount <= 0 THEN [stack |-> s, args |-> args]
    ELSE popArgs(pop(s), argCount - 1, Append(args, top(s)))

\* variant: the parameters stay in the order they were popped
asPopped(items) == items

\* Array.prototype.reverse
reverse(items) == [k \in 1..Len(items) |-> items[Len(items) + 1 - k]]

\* the for loop of HTTP_GET: [stack, fields]
RECURSIVE popCallbacks(_, _, _)
popCallbacks(s, callbackCount, fields) ==
    IF callbackCount <= 0 THEN [stack |-> s, fields |-> fields]
    ELSE popCallbacks(pop(pop(s)), callbackCount - 1,
                      setProperty(fields, top(s), top(pop(s))))

----------------------------------------------------------------------------
(* The JavaScript call stack.  A frame is a call that has not returned:     *)
(*   run            an activation of Interpreter.run on a chunk             *)
(*   forEach        watchers.get(name).forEach(cb => cb(value)) in setState *)
(*   dispatchEvent  the browser calling the listeners of one event          *)
(*   then, catch    a handler of the promise chain of HTTP_GET              *)

\* an activation of run also carries its history: entry is this.stack and
\* before is runtime.state as the activation found them, dispatched the
\* indices it has fetched so far
RunFrame(block, operands) ==
    [kind |-> "run", bytecode |-> block.bytecode, constants |-> block.constants,
     entry |-> operands, before |-> state, dispatched |-> <<>>]

\* forEach visits the n elements present when it is called, passing value to
\* each; fired is the history of the callbacks it has called
ForEachFrame(name, value, n) ==
    [kind |-> "forEach", name |-> name, value |-> value, k |-> 0, n |-> n,
     fired |-> <<>>]

DispatchFrame(handlers) == [kind |-> "dispatchEvent", handlers |-> handlers, k |-> 0]

HandlerFrame(kind, callbacks) == [kind |-> kind, callbacks |-> callbacks, step |-> "callback"]

\* the promise of one HTTP_GET: pending while the fetch is in flight,
\* rejected when fetch failed or the .then handler threw
Fetch(url, callbacks) ==
    [url |-> url, callbacks |-> callbacks, settled |-> "pending", reason |-> NoError]

TopFrame == frames[Len(frames)]

withTop(frame) == [frames EXCEPT ![Len(frames)] = frame]

Running == frames # <<>> /\ TopFrame.kind = "run"

\* the loop condition of run holds: an instruction is fetched
Fetching == Running /\ ip < Len(TopFrame.bytecode)

instruction == TopFrame.bytecode[ip + 1]

operand == operandOf(instruction)

Executing(opcode) == Fetching /\ opcodeOf(instruction) = opcode

\* `const instruction = bytecode[this.ip]; ... this.ip++`: the call stack
\* once the running activation has fetched the instruction at ip
fetched ==
    withTop([TopFrame EXCEPT !.dispatched =
                 IF Len(@) < MaxDispatched THEN Append(@, ip) ELSE @])

KnownOpcodes ==
    {"PUSH_CONST", "PUSH_VAR", "SET_STATE", "BUILD_OBJ", "CREATE_WIDGET",
     "UPDATE_WIDGET", "PACK_WIDGET", "DEF_BLOCK", "BIND_WIDGET", "WATCH_STATE",
     "CALL_PROC", "DEF_PROC", "HTTP_GET"}

\* no JavaScript is running and the top-level run has returned or thrown
Idle == frames = <<>> /\ vpc \in {"completed", "failed"}

\* a rejected promise has its .catch handler queued as a microtask, which
\* runs before the browser delivers anything else
NoMicrotask == \A i \in 1..Len(fetches) : fetches[i].settled = "pending"

\* variant: the Error is recorded and the run goes on with its next instruction
UnwindResume(base, error) ==
    /\ verror' = error
    /\ frames' = base
    /\ UNCHANGED <<fetches, vpc>>

\* an Error propagates out of every active run (there is no try/catch): the
\* browser reports it and goes on with the next listener; a throwing .then
\* handler rejects its promise; anything else ends the whole call stack.
\* this.stack and this.ip stay as they are.
Unwind(base, error) ==
    /\ verror' = error
    /\ frames' = IF base[1].kind = "dispatchEvent" THEN <<base[1]>> ELSE <<>>
    /\ fetches' = IF base[1].kind = "then"
                  THEN Append(fetches, [url |-> undefined,
                                        callbacks |-> base[1].callbacks,
                                        settled |-> "rejected",
                                        reason |-> error])
                  ELSE fetches
    /\ vpc' = IF vpc = "running" THEN "failed" ELSE vpc

Proceed(newFrames) ==
    /\ frames' = newFrames
    /\ UNCHANGED <<verror, fetches, vpc>>

\* variant: once an Error has been thrown, run goes on from the stale this.ip
InvokeKeepIp(base, block, ipNow, operands) ==
    IF block.t = "undefined" THEN ip' = ipNow /\ Unwind(base, ErrTypeError)
    ELSE IF block.t # "block" THEN ip' = 0 /\ Unwind(base, ErrTypeError)
    ELSE IF Len(base) >= MaxFrames THEN ip' \in {ipNow, 0} /\ Unwind(base, ErrRangeError)
    ELSE /\ ip' = IF verror = NoError THEN 0 ELSE ipNow
         /\ Proceed(Append(base, RunFrame(block, operands)))

\* The call `this.run(block.bytecode, block.constants)` with base the call
\* stack of the caller.  Reading a property of undefined throws before run
\* is entered; any other value without a bytecode array throws at
\* bytecode.length, after run has reset this.ip.  The engine's call stack is
\* finite: the call that exceeds it throws a RangeError, in the closure or
\* in run.
Invoke(base, block, ipNow, operands) ==
    IF block.t = "undefined" THEN ip' = ipNow /\ Unwind(base, ErrTypeError)
    ELSE IF block.t # "block" THEN ip' = 0 /\ Unwind(base, ErrTypeError)
    ELSE IF Len(base) >= MaxFrames THEN ip' \in {ipNow, 0} /\ Unwind(base, ErrRangeError)
    ELSE ip' = 0 /\ Proceed(Append(base, RunFrame(block, operands)))

\* variant: setState calls the watchers and leaves the variable as it was
setStateKeep(registry, name, value) == registry

\* this.state.set(name, value)
setStateWrite(registry, name, value) == mapSet(registry, name, value)

\* setState(name, value) called with the call stack base: the forEach of line 24
setStateFrames(base, name, value) ==
    IF mapHas(watchers, name)
    THEN Append(base, ForEachFrame(name, value, Len(mapGet(watchers, name))))
    ELSE base

\* the element forEach passes to its callback in its k-th iteration (from 0)
forEachNextReversed(list, k) == list[Len(list) - k]

forEachNext(list, k) == list[k + 1]

\* the listeners of an element for one event, in registration order
RECURSIVE listenersFor(_, _, _)
listenersFor(listeners, eventName, i) ==
    IF i > Len(listeners) THEN <<>>
    ELSE IF listeners[i][1] = eventName
    THEN <<listeners[i][2]>> \o listenersFor(listeners, eventName, i + 1)
    ELSE listenersFor(listeners, eventName, i + 1)

removeAt(s, i) == SubSeq(s, 1, i - 1) \o SubSeq(s, i + 1, Len(s))

runtimeVars == <<state, widgets, procs, watchers>>

----------------------------------------------------------------------------
(* Interpreter.run and the runtime as a state machine *)

\* interpreter.run(bytecode, constants) on the top-level chunk
StartRun ==
    /\ vpc = "ready"
    /\ vpc' = "running"
    /\ frames' = <<RunFrame([bytecode |-> bytecode, constants |-> constants], stack)>>
    /\ ip' = 0
    /\ UNCHANGED <<stack, runtimeVars, fetches, events, verror, lastForEach>>
    /\ UNCHANGED <<parserVars, compilerVars>>

PushConst ==
    /\ Executing("PUSH_CONST")
    /\ Len(stack) < MaxStack
    /\ ip' = ip + 1
    /\ stack' = Append(stack, constantAt(TopFrame.constants, operand))
    /\ frames' = fetched
    /\ UNCHANGED <<vpc, runtimeVars, fetches, events, verror, lastForEach>>
    /\ UNCHANGED <<parserVars, compilerVars>>

PushVar ==
    /\ Executing("PUSH_VAR")
    /\ Len(stack) < MaxStack
    /\ ip' = ip + 1
    /\ stack' = Append(stack, mapGet(state, constantAt(TopFrame.constants, operand)))
    /\ frames' = fetched
    /\ UNCHANGED <<vpc, runtimeVars, fetches, events, verror, lastForEach>>
    /\ UNCHANGED <<parserVars, compilerVars>>

SetState ==
    /\ Executing("SET_STATE")
    /\ ip' = ip + 1
    /\ LET name == top(stack)
           value == top(pop(stack)) IN
       /\ stack' = pop(pop(stack))
       /\ state' = setStateWrite(state, name, value)
       /\ frames' = setStateFrames(fetched, name, value)
    /\ UNCHANGED <<vpc, widgets, procs, watchers, fetches, events, verror, lastForEach>>
    /\ UNCHANGED <<parserVars, compilerVars>>

BuildObj ==
    /\ Executing("BUILD_OBJ")
    /\ Len(buildObj(stack, operand, <<>>).stack) < MaxStack
    /\ ip' = ip + 1
    /\ stack' = Append(buildObj(stack, operand, <<>>).stack,
                       Object(0, buildObj(stack, operand, <<>>).fields))
    /\ frames' = fetched
    /\ UNCHANGED <<vpc, runtimeVars, fetches, events, verror, lastForEach>>
    /\ UNCHANGED <<parserVars, compilerVars>>

CreateWidget ==
    /\ Executing("CREATE_WIDGET")
    /\ ip' = ip + 1
    /\ LET name == top(stack)
           type == top(pop(stack))
           options == top(pop(pop(stack)))
           result == createWidget(widgets, name, type, options) IN
       /\ stack' = pop(pop(pop(stack)))
       /\ widgets' = result.widgets
       /\ IF result.error # NoError THEN Unwind(fetched, result.error)
          ELSE Proceed(fetched)
    /\ UNCHANGED <<state, procs, watchers, events, lastForEach>>
    /\ UNCHANGED <<parserVars, compilerVars>>

UpdateWidget ==
    /\ Executing("UPDATE_WIDGET")
    /\ ip' = ip + 1
    /\ LET name == top(stack)
           options == top(pop(stack))
           result == updateWidget(widgets, name, options) IN
       /\ stack' = pop(pop(stack))
       /\ widgets' = result.widgets
       /\ IF result.error # NoError THEN Unwind(fetched, result.error)
          ELSE Proceed(fetched)
    /\ UNCHANGED <<state, procs, watchers, events, lastForEach>>
    /\ UNCHANGED <<parserVars, compilerVars>>

PackWidget ==
    /\ Executing("PACK_WIDGET")
    /\ ip' = ip + 1
    /\ LET name == top(stack)
           options == top(pop(stack)) IN
       /\ stack' = pop(pop(stack))
       /\ widgets' = packWidget(widgets, name, options)
    /\ frames' = fetched
    /\ UNCHANGED <<vpc, state, procs, watchers, fetches, events, verror,
                   lastForEach>>
    /\ UNCHANGED <<parserVars, compilerVars>>

DefBlock ==
    /\ Executing("DEF_BLOCK")
    /\ Len(stack) < MaxStack
    /\ ip' = ip + 1
    /\ stack' = Append(stack, constantAt(TopFrame.constants, operand))
    /\ frames' = fetched
    /\ UNCHANGED <<vpc, runtimeVars, fetches, events, verror, lastForEach>>
    /\ UNCHANGED <<parserVars, compilerVars>>

BindWidget ==
    /\ Executing("BIND_WIDGET")
    /\ LET widgetName == top(stack)
           result == bindHandlers(pop(stack), operand, <<>>) IN
       /\ mapHas(widgets, widgetName) =>
             Len(mapGet(widgets, widgetName).listeners) + Len(result.handlers)
                <= MaxListeners
       /\ ip' = ip + 1
       /\ stack' = result.stack
       /\ IF result.error # NoError
          THEN /\ Unwind(fetched, result.error)
               /\ UNCHANGED widgets
          ELSE /\ Proceed(fetched)
               /\ widgets' = bindWidget(widgets, widgetName, result.handlers)
    /\ UNCHANGED <<state, procs, watchers, events, lastForEach>>
    /\ UNCHANGED <<parserVars, compilerVars>>

WatchState ==
    /\ Executing("WATCH_STATE")
    /\ LET varName == top(stack)
           block == top(pop(stack)) IN
       /\ mapHas(watchers, varName) => Len(mapGet(watchers, varName)) < MaxWatchers
       /\ ip' = ip + 1
       /\ stack' = pop(pop(stack))
       /\ watchers' = watchState(watchers, varName, block)
    /\ frames' = fetched
    /\ UNCHANGED <<vpc, state, widgets, procs, fetches, events, verror,
                   lastForEach>>
    /\ UNCHANGED <<parserVars, compilerVars>>

CallProc ==
    /\ Executing("CALL_PROC")
    /\ LET procName == top(stack) IN
       /\ stack' = pop(stack)
       /\ IF ~mapHas(procs, procName)
          THEN /\ ip' = ip + 1
               /\ Unwind(fetched, ErrProcedureNotFound(procName))
          ELSE Invoke(fetched, mapGet(procs, procName).block, ip + 1, pop(stack))
    /\ UNCHANGED <<runtimeVars, events, lastForEach>>
    /\ UNCHANGED <<parserVars, compilerVars>>

DefProc ==
    /\ Executing("DEF_PROC")
    /\ ip' = ip + 1
    /\ LET procName == top(stack)
           popped == popArgs(pop(stack), operand, <<>>)
           block == top(popped.stack) IN
       /\ stack' = pop(popped.stack)
       /\ procs' = defineProc(procs, procName,
                              [args |-> reverse(popped.args), block |-> block])
    /\ frames' = fetched
    /\ UNCHANGED <<vpc, state, widgets, watchers, fetches, events, verror,
                   lastForEach>>
    /\ UNCHANGED <<parserVars, compilerVars>>

\* variant: HTTP_GET runs the .callback chunk itself, before it returns
HttpGetCallsBack ==
    /\ Executing("HTTP_GET")
    /\ LET popped == popCallbacks(pop(stack), operand, <<>>) IN
       /\ stack' = popped.stack
       /\ Invoke(fetched, mapGet(popped.fields, W_dot_callback), ip + 1, popped.stack)
    /\ UNCHANGED <<runtimeVars, events, lastForEach>>
    /\ UNCHANGED <<parserVars, compilerVars>>

HttpGet ==
    /\ Executing("HTTP_GET")
    /\ Len(fetches) < MaxFetches
    /\ ip' = ip + 1
    /\ LET url == top(stack)
           popped == popCallbacks(pop(stack), operand, <<>>) IN
       /\ stack' = popped.stack
       /\ fetches' = Append(fetches, Fetch(url, popped.fields))
    /\ frames' = fetched
    /\ UNCHANGED <<vpc, runtimeVars, events, verror, lastForEach>>
    /\ UNCHANGED <<parserVars, compilerVars>>

\* default: throw new Error(`Unknown opcode: ${opcode}`)
UnknownOpcode ==
    /\ Fetching
    /\ opcodeOf(instruction) \notin KnownOpcodes
    /\ ip' = ip + 1
    /\ Unwind(fetched, ErrUnknownOpcode(opcodeOf(instruction)))
    /\ UNCHANGED <<stack, runtimeVars, events, lastForEach>>
    /\ UNCHANGED <<parserVars, compilerVars>>

\* the loop condition of run fails: run returns to its caller
Return ==
    /\ Running
    /\ ip >= Len(TopFrame.bytecode)
    /\ frames' = pop(frames)
    /\ vpc' = IF Len(frames) = 1 /\ vpc = "running" THEN "completed" ELSE vpc
    /\ UNCHANGED <<stack, ip, runtimeVars, fetches, events, verror, lastForEach>>
    /\ UNCHANGED <<parserVars, compilerVars>>

\* one iteration of forEach in setState: cb(value)
FireWatcher ==
    /\ frames # <<>>
    /\ TopFrame.kind = "forEach"
    /\ TopFrame.k < TopFrame.n
    /\ LET callback == forEachNext(mapGet(watchers, TopFrame.name), TopFrame.k) IN
       Invoke(withTop([TopFrame EXCEPT !.k = @ + 1, !.fired = Append(@, callback)]),
              callback, ip, stack)
    /\ UNCHANGED <<stack, runtimeVars, events, lastForEach>>
    /\ UNCHANGED <<parserVars, compilerVars>>

\* forEach has visited its n elements: setState returns
FinishForEach ==
    /\ frames # <<>>
    /\ TopFrame.kind = "forEach"
    /\ TopFrame.k = TopFrame.n
    /\ frames' = pop(frames)
    /\ lastForEach' = [registered |-> SubSeq(mapGet(watchers, TopFrame.name),
                                             1, TopFrame.n),
                       fired |-> TopFrame.fired]
    /\ UNCHANGED <<vpc, stack, ip, runtimeVars, fetches, events, verror>>
    /\ UNCHANGED <<parserVars, compilerVars>>

----------------------------------------------------------------------------
(* Generated programs and chunks for the interpreter *)

W_was_clicked == <<"w", "a", "s", "_", "c", "l", "i", "c", "k", "e", "d">>

\* conf w -text {$<variable>}
ConfTextFrom(variable) ==
    Leaf(W_conf, <<Identifier(W), Option(W_dash_text), VariableSubstitution(variable)>>)

WatchA(body) == Command(W_watch, <<Identifier(A)>>, Body(body))

BindClick(body) ==
    Command(W_bind, <<Identifier(W)>>, Body(<<Command(W_dot_click, <<>>, Body(body))>>))

HttpGetX ==
    Command(W_httpdot_get, <<StringLiteral(X)>>,
            Body(<<Command(W_dot_callback, <<>>, Body(<<SetString(A, X)>>)),
                   Command(W_dot_error, <<>>, Body(<<SetString(B, X)>>))>>))

VMCommands ==
    { SetString(A, X),
      SetVar(B, A),
      Leaf(W_l, <<Identifier(W), StringLiteral(X)>>),
      ConfTextFrom(A),
      Leaf(W_pack, <<Identifier(W), Option(W_dash_fill), Identifier(W_x)>>),
      BindClick(<<SetString(A, X)>>),
      WatchA(<<SetString(B, X)>>),
      WatchA(<<SetVar(B, A), SetString(X, X)>>),
      Command(W_proc, <<Identifier(P), Identifier(A)>>, Body(<<SetVar(B, A)>>)),
      Command(W_proc, <<Identifier(P)>>, Body(<<SetString(A, X), SetString(B, X)>>)),
      Leaf(P, <<Identifier(X)>>),
      Leaf(P, <<>>),
      HttpGetX }

Scenarios ==
    { \* two watchers of a, the second as long as the top-level chunk
      <<WatchA(<<SetString(B, X)>>),
        WatchA(<<SetString(B, A), SetString(X, X), SetString(X, A)>>),
        SetString(A, X)>>,
      \* a watcher that writes the variable it watches
      <<WatchA(<<SetString(A, X)>>), SetString(A, X)>>,
      \* a list box given a value that is not an array
      <<Leaf(W_listbox, <<Identifier(W)>>),
        Leaf(W_conf, <<Identifier(W), Option(W_dash_items), VariableSubstitution(A)>>)>>,
      \* a click handler that calls an undefined procedure
      <<Leaf(W_b, <<Identifier(W), StringLiteral(X)>>), BindClick(<<Leaf(P, <<>>)>>)>>,
      \* watchers of the variables written by the HTTP handlers
      <<Command(W_watch, <<Identifier(W_http_response)>>, Body(<<SetString(B, X)>>)),
        Command(W_watch, <<Identifier(W_error)>>, Body(<<SetString(B, A)>>)),
        HttpGetX>>,
      \* a label reconfigured with two options
      <<Leaf(W_l, <<Identifier(W), StringLiteral(X)>>),
        Leaf(W_conf, <<Identifier(W), Option(W_dash_text), StringLiteral(A),
                       Option(W_dash_bg), StringLiteral(B)>>)>>,
      \* a button whose click handler records the click
      <<Leaf(W_b, <<Identifier(W), StringLiteral(X)>>),
        BindClick(<<SetWord(W_was_clicked, W_1)>>)>>,
      \* a label kept up to date by a watcher
      <<Leaf(W_l, <<Identifier(W), StringLiteral(X)>>), WatchA(<<ConfTextFrom(A)>>)>>,
      \* a button with a click handler that fails, leaving its argument on the
      \* stack, and a key handler
      <<Leaf(W_b, <<Identifier(W), StringLiteral(X)>>),
        Command(W_bind, <<Identifier(W)>>,
                Body(<<Command(W_dot_click, <<>>, Body(<<Leaf(P, <<Identifier(X)>>)>>)),
                       Command(W_dot_key, <<>>, Body(<<SetString(A, X)>>))>>))>>,
      \* a watcher of a whose first write fires a longer watcher of b
      <<WatchA(<<SetString(B, X), SetString(X, X)>>),
        Command(W_watch, <<Identifier(B)>>, Body(<<SetString(X, A), SetString(X, B)>>)),
        SetString(A, X)>>,
      \* a procedure of one parameter defined again with two, after another
      \* procedure
      <<Command(W_proc, <<Identifier(P), Identifier(A)>>, Body(<<SetVar(B, A)>>)),
        Command(W_proc, <<Identifier(X)>>, Body(<<SetString(A, X)>>)),
        Command(W_proc, <<Identifier(P), Identifier(A), Identifier(B)>>,
                Body(<<SetString(X, X)>>))>>,
      \* a click handler that registers a watcher of a and then writes a
      <<Leaf(W_b, <<Identifier(W), StringLiteral(X)>>),
        BindClick(<<WatchA(<<SetString(B, X), SetString(X, X)>>), SetString(A, X)>>)>>,
      \* two watchers of a, the first of which calls an undefined procedure
      <<WatchA(<<Leaf(P, <<>>)>>), WatchA(<<SetString(B, X)>>), SetString(A, X)>>,
      \* an HTTP callback that calls an undefined procedure
      <<Command(W_httpdot_get, <<StringLiteral(X)>>,
                Body(<<Command(W_dot_callback, <<>>, Body(<<Leaf(P, <<>>)>>))>>))>> }

VMPrograms ==
    {[type |-> "Program", body |-> body] :
        body \in SeqsUpTo(VMCommands, MaxVMCmds) \cup Scenarios}

\* chunks written by hand, as a caller of run can pass them
RawChunks ==
    { [bytecode |-> <<<<"PUSH_CONST", 0>>, <<"POP">>>>, constants |-> <<String(X)>>],
      [bytecode |-> <<<<"SET_STATE">>>>, constants |-> <<>>],
      [bytecode |-> <<<<"BUILD_OBJ", 1>>, <<"PUSH_CONST", 0>>, <<"CREATE_WIDGET">>>>,
       constants |-> <<String(W)>>] }

\* what run is started on: compile(program) of an accepted program (cpc is
\* "done"), or a hand-written chunk (the compiler is not used, cpc is "off")
InitialChunks ==
    {[program |-> program, cpc |-> "done", chunk |-> compile(program)] :
        program \in {p \in VMPrograms : compile(p).error = NoError}}
    \cup
    {[program |-> [type |-> "Program", body |-> <<>>], cpc |-> "off",
      chunk |-> [bytecode |-> raw.bytecode, constants |-> raw.constants, nextId |-> 1]] :
        raw \in RawChunks}

\* the JSON values a response can carry
ResponseData == {String(X), List(<<String(A)>>)}

\* the arguments of setState calls made from outside
HostNames == {String(A)}
HostValues == {String(B)}

----------------------------------------------------------------------------
(* The host: the browser delivering events and settling fetches, and a      *)
(* caller of runtime.setState                                               *)

\* the browser dispatches an event on a registered widget that listens to it
DispatchEvent ==
    /\ Idle
    /\ NoMicrotask
    /\ events < MaxEvents
    /\ \E w \in 1..Len(widgets) :
         \E l \in 1..Len(widgets[w][2].listeners) :
            frames' = <<DispatchFrame(listenersFor(widgets[w][2].listeners,
                                                   widgets[w][2].listeners[l][1], 1))>>
    /\ events' = events + 1
    /\ UNCHANGED <<vpc, stack, ip, runtimeVars, fetches, verror, lastForEach>>
    /\ UNCHANGED <<parserVars, compilerVars>>

\* the browser calls the next listener: () => { this.run(block.bytecode, ...) }
InvokeListener ==
    /\ frames # <<>>
    /\ TopFrame.kind = "dispatchEvent"
    /\ TopFrame.k < Len(TopFrame.handlers)
    /\ Invoke(withTop([TopFrame EXCEPT !.k = @ + 1]),
              TopFrame.handlers[TopFrame.k + 1], ip, stack)
    /\ UNCHANGED <<stack, runtimeVars, events, lastForEach>>
    /\ UNCHANGED <<parserVars, compilerVars>>

FinishDispatch ==
    /\ frames # <<>>
    /\ TopFrame.kind = "dispatchEvent"
    /\ TopFrame.k = Len(TopFrame.handlers)
    /\ frames' = pop(frames)
    /\ UNCHANGED <<vpc, stack, ip, runtimeVars, fetches, events, verror, lastForEach>>
    /\ UNCHANGED <<parserVars, compilerVars>>

\* fetch and res.json() succeed: the .then handler starts with
\* this.runtime.setState('http_response', data)
HttpResolve ==
    /\ Idle
    /\ NoMicrotask
    /\ events < MaxEvents
    /\ \E i \in 1..Len(fetches) : \E data \in ResponseData :
         /\ fetches' = removeAt(fetches, i)
         /\ state' = setStateWrite(state, String(W_http_response), data)
         /\ frames' = setStateFrames(<<HandlerFrame("then", fetches[i].callbacks)>>,
                                     String(W_http_response), data)
    /\ events' = events + 1
    /\ UNCHANGED <<vpc, stack, ip, widgets, procs, watchers, verror, lastForEach>>
    /\ UNCHANGED <<parserVars, compilerVars>>

\* the promise chain is rejected, by a failed fetch or by an Error thrown in
\* the .then handler: the .catch handler starts with
\* this.runtime.setState('error', err)
HttpReject ==
    /\ Idle
    /\ \E i \in 1..Len(fetches) :
         /\ IF fetches[i].settled = "rejected"
            THEN events' = events
            ELSE NoMicrotask /\ events < MaxEvents /\ events' = events + 1
         /\ fetches' = removeAt(fetches, i)
         /\ state' = setStateWrite(state, String(W_error),
                                   ErrorValue(IF fetches[i].settled = "rejected"
                                              THEN fetches[i].reason ELSE ErrFetchFailed))
         /\ frames' = setStateFrames(<<HandlerFrame("catch", fetches[i].callbacks)>>,
                                     String(W_error),
                                     ErrorValue(IF fetches[i].settled = "rejected"
                                                THEN fetches[i].reason ELSE ErrFetchFailed))
    /\ UNCHANGED <<vpc, stack, ip, widgets, procs, watchers, verror, lastForEach>>
    /\ UNCHANGED <<parserVars, compilerVars>>

\* `if (callbacks['.callback']) { ... this.run(cb.bytecode, cb.constants) }`
\* of the .then handler, and the same with '.error' in the .catch handler
HandlerCallback ==
    /\ frames # <<>>
    /\ TopFrame.kind \in {"then", "catch"}
    /\ TopFrame.step = "callback"
    /\ LET cb == mapGet(TopFrame.callbacks,
                        IF TopFrame.kind = "then" THEN W_dot_callback ELSE W_dot_error) IN
       IF truthy(cb)
       THEN Invoke(withTop([TopFrame EXCEPT !.step = "end"]), cb, ip, stack)
       ELSE ip' = ip /\ Proceed(pop(frames))
    /\ UNCHANGED <<stack, runtimeVars, events, lastForEach>>
    /\ UNCHANGED <<parserVars, compilerVars>>

\* the handler returns after its callback chunk has run
HandlerEnd ==
    /\ frames # <<>>
    /\ TopFrame.kind \in {"then", "catch"}
    /\ TopFrame.step = "end"
    /\ frames' = pop(frames)
    /\ UNCHANGED <<vpc, stack, ip, runtimeVars, fetches, events, verror, lastForEach>>
    /\ UNCHANGED <<parserVars, compilerVars>>

\* interpreter.runtime.setState(name, value) called from outside a run
HostSetState ==
    /\ Idle
    /\ NoMicrotask
    /\ events < MaxEvents
    /\ \E name \in HostNames : \E value \in HostValues :
         /\ state' = setStateWrite(state, name, value)
         /\ frames' = setStateFrames(<<>>, name, value)
    /\ events' = events + 1
    /\ UNCHANGED <<vpc, stack, ip, widgets, procs, watchers, fetches, verror, lastForEach>>
    /\ UNCHANGED <<parserVars, compilerVars>>

Init ==
    /\ ParserOff
    /\ \E initial \in InitialChunks :
         /\ programNode = initial.program
         /\ cpc = initial.cpc
         /\ cmdIdx = Len(initial.program.body) + 1
         /\ bytecode = initial.chunk.bytecode
         /\ constants = initial.chunk.constants
         /\ nextId = initial.chunk.nextId
         /\ cerror = NoError
    /\ NewInterpreter("ready")

Next ==
    \/ StartRun
    \/ PushConst
    \/ PushVar
    \/ SetState
    \/ BuildObj
    \/ CreateWidget
    \/ UpdateWidget
    \/ PackWidget
    \/ DefBlock
    \/ BindWidget
    \/ WatchState
    \/ CallProc
    \/ DefProc
    \/ HttpGet
    \/ UnknownOpcode
    \/ Return
    \/ FireWatcher
    \/ FinishForEach
    \/ DispatchEvent
    \/ InvokeListener
    \/ FinishDispatch
    \/ HttpResolve
    \/ HttpReject
    \/ HandlerCallback
    \/ HandlerEnd
    \/ HostSetState

Spec == Init /\ [][Next]_vars

\* JavaScript runs every call to completion: a step that can be taken is
\* taken
FairSpec == Spec /\ WF_vars(Next)

----------------------------------------------------------------------------
(* Parser: vocabulary of the properties *)

ParseDone   == ppc = "done"
ParseFailed == ppc = "failed"
ParseEnded  == ParseDone \/ ParseFailed

\* the indent levels of the analysed lines, in order
IndentLevels == [i \in 1..Len(processedLines) |-> processedLines[i].indent]

\* Command number n was created from analysed line number n
LineOf(n) == processedLines[n]

\* a line that is blank or whose first non-whitespace character is `#`
BlankOrComment(line) == trimStart(line) = <<>> \/ Head(trimStart(line)) = "#"

RECURSIVE withoutBlankOrComment(_)
withoutBlankOrComment(rawLines) ==
    IF rawLines = <<>> THEN <<>>
    ELSE IF BlankOrComment(Head(rawLines)) THEN withoutBlankOrComment(Tail(rawLines))
    ELSE <<Head(rawLines)>> \o withoutBlankOrComment(Tail(rawLines))

\* what parse has produced: the error thrown, or the Program
Outcome ==
    IF ParseFailed THEN [error |-> perror, nodes |-> <<>>, arrays |-> <<>>]
    ELSE [error |-> NoError, nodes |-> nodes, arrays |-> arrays]

\* pre-order traversal of a body array: <<command number, depth>> pairs
RECURSIVE PreorderFrom(_, _, _)
PreorderFrom(body, k, depth) ==
    IF k > Len(arrays[body]) THEN <<>>
    ELSE LET n == arrays[body][k] IN
         <<<<n, depth>>>>
             \o (IF nodes[n].body # null
                 THEN PreorderFrom(nodes[n].body, 1, depth + 1) ELSE <<>>)
             \o PreorderFrom(body, k + 1, depth)

Preorder == PreorderFrom(1, 1, 0)

\* some analysed line is indented more than one level deeper than the
\* analysed line before it (level 0 before the first)
HasIndentJump ==
    \E i \in 1..Len(processedLines) :
        processedLines[i].indent
            > (IF i = 1 THEN 0 ELSE processedLines[i - 1].indent) + 1

----------------------------------------------------------------------------
(* Parser: properties *)

\* C3 -- Parser indent invariant: in every Program returned by parse, each
\* child of a Command with a non-null body comes from a line whose indent
\* level is exactly one more than the indent level of the parent's line.
C3_ParserIndentInvariant ==
    ParseDone =>
        \A p \in 1..Len(nodes) :
            nodes[p].body # null =>
                \A k \in 1..Len(arrays[nodes[p].body]) :
                    LineOf(arrays[nodes[p].body][k]).indent = LineOf(p).indent + 1

\* a Program built through an indent, a two-level dedent and a re-indent
C3_Witness == ParseDone /\ IndentLevels = <<0, 1, 2, 0, 1>>

\* C5 -- a source with a line (not blank, not a comment) that starts with an
\* odd number of spaces makes parse fail with an "Invalid indentation" error
\* and return no Program.
C5_OddSpacesRejected ==
    (\E i \in 1..Len(sourceCode) :
         /\ ~BlankOrComment(sourceCode[i])
         /\ leadingSpaces(sourceCode[i]) % 2 = 1)
    => /\ ~ParseDone
       /\ ParseFailed => perror[1] \in {MsgOddIndent, MsgIncrease}

\* C6 (as stated) -- whenever some analysed line is indented more than one
\* level deeper than the analysed line before it, parse fails with "Invalid
\* indentation increase".
C6_JumpAlwaysIncreaseError ==
    (ParseEnded /\ HasIndentJump) => (ParseFailed /\ perror[1] = MsgIncrease)

\* C6 (amended) -- whenever some analysed line is indented more than one
\* level deeper than the analysed line before it, parse fails and returns no
\* Program; the error is "Invalid indentation increase" unless the first
\* analysed line has indent level 1, in which case parse has already failed
\* there with "cannot indent on an empty block".
C6_JumpRejected ==
    (ParseEnded /\ HasIndentJump) =>
        /\ ParseFailed
        /\ perror[1] = IF processedLines[1].indent = 1
                       THEN MsgEmptyBlock ELSE MsgIncrease

\* parse failed on a jump that is not on the first line
C6_Witness ==
    /\ ParseFailed
    /\ IndentLevels = <<0, 1, 0, 2>>
    /\ perror = ErrIncrease(0, 2)

\* C7 -- for every successfully parsed source the pre-order traversal of
\* the Program lists the commands of the analysed lines in source order,
\* each exactly once, each at the depth given by its line's indent level.
C7_SourceOrderRetained ==
    ParseDone =>
        /\ Len(nodes) = Len(processedLines)
        /\ Preorder = [i \in 1..Len(processedLines) |-> <<i, LineOf(i).indent>>]
        /\ \A i \in 1..Len(nodes) :
               /\ nodes[i].name.value = Head(LineOf(i).tokens)
               /\ Len(nodes[i].args) = Len(LineOf(i).tokens) - 1

\* a Program with nested blocks and a two-level dedent
C7_Witness == ParseDone /\ IndentLevels = <<0, 1, 2, 2, 0>>

\* C8 -- in every parsed Program a Command's body is non-null exactly when
\* the next analysed line is indented deeper than its own line, a non-null
\* body is never empty, and a body, once it exists, is never replaced and
\* never loses a child.
C8_BodyShape ==
    ParseDone =>
        \A n \in 1..Len(nodes) :
            /\ nodes[n].body # null
                   <=> (n < Len(processedLines)
                        /\ LineOf(n + 1).indent > LineOf(n).indent)
            /\ nodes[n].body # null => arrays[nodes[n].body] # <<>>

C8_BodyKept ==
    \A n \in 1..Len(nodes) :
        nodes[n].body # null =>
            /\ n <= Len(nodes') /\ nodes'[n].body = nodes[n].body
            /\ Len(arrays'[nodes[n].body]) >= Len(arrays[nodes[n].body])
            /\ SubSeq(arrays'[nodes[n].body], 1, Len(arrays[nodes[n].body]))
                   = arrays[nodes[n].body]

C8_BodyNonNullIffDeeperLineFollows == []C8_BodyShape /\ [][C8_BodyKept]_vars

\* a Program with a block of two children followed by a leaf
C8_Witness == ParseDone /\ IndentLevels = <<0, 1, 1, 0>>

\* the classification of section 4.1: {$X} with X non-empty and free of
\* braces, then "...", then -..., then Identifier
ArgumentAsSpecified(token) ==
    IF /\ isVariableSubstitutionToken(token)
       /\ sliceToLast(token, 2) # <<>>
       /\ \A k \in 1..Len(sliceToLast(token, 2)) :
              sliceToLast(token, 2)[k] \notin {"{", "}"}
    THEN [type |-> "VariableSubstitution", name |-> sliceToLast(token, 2)]
    ELSE IF isStringLiteralToken(token)
    THEN [type |-> "StringLiteral", value |-> sliceToLast(token, 1)]
    ELSE IF isOptionToken(token)
    THEN [type |-> "Option", value |-> token]
    ELSE [type |-> "Identifier", value |-> token]

\* C9 -- every token after the first is classified by the strict priority
\* {$X} (X non-empty, no inner braces), "...", -..., Identifier; a bare {$}
\* is not a VariableSubstitution.
C9_ArgumentClassification ==
    \A n \in 1..Len(nodes) :
        \A k \in 1..Len(nodes[n].args) :
            nodes[n].args[k] = ArgumentAsSpecified(LineOf(n).tokens[k + 1])

\* C10 -- blank lines and comment lines are discarded entirely: parse gives
\* the same Program, or throws the same error, as on the source with all
\* such lines removed, whatever their indentation.
C10_IgnoredLinesDiscarded ==
    ParseEnded => Outcome = parse(withoutBlankOrComment(sourceCode))

\* a parsed source holding a comment or blank line with an odd indentation
\* between two command lines
C10_Witness ==
    /\ ParseDone
    /\ Len(sourceCode) = 3
    /\ BlankOrComment(sourceCode[2])
    /\ leadingWhitespace(sourceCode[2]) % 2 = 1
    /\ Len(nodes) = 2

----------------------------------------------------------------------------
(* Compiler: properties *)

CompileDone   == cpc = "done"
CompileFailed == cpc = "failed"

\* the constant pools of a chunk: its own and those of its nested blocks
RECURSIVE PoolsOf(_)
PoolsOf(pool) ==
    {pool} \cup UNION {PoolsOf(pool[i].constants) :
                          i \in {j \in 1..Len(pool) : pool[j].t = "block"}}

NoEqualScalars(pool) ==
    \A i, j \in 1..Len(pool) :
        (i < j /\ pool[i].t \in {"string", "number"}) => pool[i] # pool[j]

\* C4 -- Constant pool deduplication: in every chunk the compiler produces,
\* top-level or nested, no two string or number entries of constants are
\* equal.
C4_ConstantPoolDeduplication ==
    CompileDone => \A pool \in PoolsOf(constants) : NoEqualScalars(pool)

\* `set a "x"` then `set b "x"` compiled: "x" is pooled once
C4_Witness ==
    /\ CompileDone
    /\ programNode.body = <<SetString(A, X), SetString(B, X)>>
    /\ constants = <<String(X), String(A), String(B)>>
    /\ bytecode = <<<<"PUSH_CONST", 0>>, <<"PUSH_CONST", 1>>, <<"SET_STATE">>,
                    <<"PUSH_CONST", 0>>, <<"PUSH_CONST", 2>>, <<"SET_STATE">>>>

----------------------------------------------------------------------------
(* Interpreter: properties *)

\* the top-level run of a compiled program has returned normally and the
\* host has delivered nothing since
TopLevelCompleted ==
    /\ cpc = "done"
    /\ vpc = "completed"
    /\ frames = <<>>
    /\ events = 0

\* C1 -- Stack balance: when run() of the top-level chunk of a program
\* accepted by the parser and the compiler has completed without error, the
\* operand stack is empty.
C1_StackBalance == TopLevelCompleted => stack = <<>>

----------------------------------------------------------------------------
(* Compiler: properties of the code emitted for one command *)

\* compile is about to compile the top-level command currentCommand
CompilingCommand == cpc = "compile" /\ cmdIdx <= Len(programNode.body)

currentCommand == programNode.body[cmdIdx]

Compiling(names) == CompilingCommand /\ currentCommand.name.value \in names

\* the instruction pushes the argument: PUSH_VAR of the name of a variable
\* substitution, PUSH_CONST of the value of any other argument, the operand
\* indexing it in the pool
Pushes(instr, argNode, pool) ==
    /\ Len(instr) = 2
    /\ IF argNode.type = "VariableSubstitution"
       THEN instr[1] = "PUSH_VAR" /\ constantAt(pool, instr[2]) = String(argNode.name)
       ELSE instr[1] = "PUSH_CONST" /\ constantAt(pool, instr[2]) = String(argNode.value)

C11_Step ==
    (Compiling({W_set}) /\ Len(currentCommand.args) >= 2) =>
        /\ cerror' = NoError
        /\ Len(bytecode') = Len(bytecode) + 3
        /\ SubSeq(bytecode', 1, Len(bytecode)) = bytecode
        /\ Pushes(bytecode'[Len(bytecode) + 1], currentCommand.args[2], constants')
        /\ Pushes(bytecode'[Len(bytecode) + 2], currentCommand.args[1], constants')
        /\ bytecode'[Len(bytecode) + 3] = <<"SET_STATE">>

\* C11 -- compiling `set name value` appends exactly three instructions:
\* the push of the value, the push of the name, SET_STATE; the operands of
\* the pushes index the value and the name in the chunk's pool.
C11_SetEmitsValueNameSetState == [][C11_Step]_vars

\* `set a "x"` alone has been compiled
C11_Witness ==
    /\ CompileDone
    /\ programNode.body = <<SetString(A, X)>>
    /\ constants = <<String(X), String(A)>>
    /\ bytecode = <<<<"PUSH_CONST", 0>>, <<"PUSH_CONST", 1>>, <<"SET_STATE">>>>

\* the instructions appended for a widget name followed by n (option, value)
\* pairs: value and key of every pair, BUILD_OBJ n, the widget name, opcode
EmitsOptions(args, opcode) ==
    LET n == (Len(args) - 1) \div 2
        base == Len(bytecode)
    IN
    /\ cerror' = NoError
    /\ Len(bytecode') = base + 2 * n + 3
    /\ SubSeq(bytecode', 1, base) = bytecode
    /\ \A k \in 1..n :
          /\ Pushes(bytecode'[base + 2 * k - 1], args[2 * k + 1], constants')
          /\ Pushes(bytecode'[base + 2 * k], args[2 * k], constants')
    /\ bytecode'[base + 2 * n + 1] = <<"BUILD_OBJ", n>>
    /\ Pushes(bytecode'[base + 2 * n + 2], args[1], constants')
    /\ bytecode'[base + 2 * n + 3] = <<opcode>>

C12_Step ==
    (Compiling({W_conf, W_config, W_pack}) /\ Len(currentCommand.args) % 2 = 1) =>
        EmitsOptions(currentCommand.args,
                     IF currentCommand.name.value = W_pack THEN "PACK_WIDGET"
                     ELSE "UPDATE_WIDGET")

\* C12 -- compiling conf, config or pack with a widget name and n (option,
\* value) pairs appends, for each pair in source order, the push of the
\* value then the push of the key, then BUILD_OBJ n, the push of the widget
\* name and UPDATE_WIDGET (conf, config) or PACK_WIDGET (pack): 2n + 3
\* instructions.
C12_OptionsEmitBuildObj == [][C12_Step]_vars

isSetOfTwo(command) == command.name.value = W_set /\ Len(command.args) = 2

\* block is a chunk holding the compilation of the commands, in order, and
\* nothing else, its operands indexing its own pool
BlockCompiles(block, commands) ==
    /\ block.t = "block"
    /\ block.bytecode = compile([type |-> "Program", body |-> commands]).bytecode
    /\ (\A i \in 1..Len(commands) : isSetOfTwo(commands[i])) =>
          /\ Len(block.bytecode) = 3 * Len(commands)
          /\ \A i \in 1..Len(commands) :
                /\ Pushes(block.bytecode[3 * i - 2], commands[i].args[2], block.constants)
                /\ Pushes(block.bytecode[3 * i - 1], commands[i].args[1], block.constants)
                /\ block.bytecode[3 * i] = <<"SET_STATE">>

\* the commands of a block body compile on their own
Compilable(body) ==
    /\ ~body.isNull
    /\ compile([type |-> "Program", body |-> body.items]).error = NoError

C13_Step ==
    (/\ Compiling({W_watch})
     /\ Len(currentCommand.args) >= 1
     /\ Compilable(currentCommand.body)) =>
        /\ cerror' = NoError
        /\ Len(bytecode') = Len(bytecode) + 3
        /\ SubSeq(bytecode', 1, Len(bytecode)) = bytecode
        /\ Len(bytecode'[Len(bytecode) + 1]) = 2
        /\ bytecode'[Len(bytecode) + 1][1] = "DEF_BLOCK"
        /\ BlockCompiles(constantAt(constants', bytecode'[Len(bytecode) + 1][2]),
                         currentCommand.body.items)
        /\ Pushes(bytecode'[Len(bytecode) + 2], currentCommand.args[1], constants')
        /\ bytecode'[Len(bytecode) + 3] = <<"WATCH_STATE">>

\* C13 -- compiling `watch var` with a block body appends exactly
\* [DEF_BLOCK k, push of var, WATCH_STATE] to the enclosing chunk, and
\* constants[k] is a chunk whose instructions are the compilation of the
\* body's commands in order; no instruction of the body is in the enclosing
\* chunk.
C13_WatchEmitsBlock == [][C13_Step]_vars

\* a watch compiled after another command has filled the enclosing pool
C13_Witness ==
    /\ CompileDone
    /\ Len(programNode.body) = 2
    /\ programNode.body[1] = SetString(A, X)
    /\ programNode.body[2].name.value = W_watch
    /\ Len(bytecode) = 6
    /\ bytecode[4][1] = "DEF_BLOCK"
    /\ Len(constantAt(constants, bytecode[4][2]).bytecode) = 6
    /\ bytecode[6] = <<"WATCH_STATE">>

\* every event child of the body has a body that compiles on its own
EventsCompilable(body) ==
    /\ ~body.isNull
    /\ \A k \in 1..Len(body.items) : Compilable(body.items[k].body)

C14_Step ==
    (/\ Compiling({W_bind})
     /\ Len(currentCommand.args) >= 1
     /\ EventsCompilable(currentCommand.body)) =>
        LET children == currentCommand.body.items
            n == Len(children)
            base == Len(bytecode)
        IN
        /\ cerror' = NoError
        /\ Len(bytecode') = base + 2 * n + 2
        /\ SubSeq(bytecode', 1, base) = bytecode
        /\ \A k \in 1..n :
              /\ Len(bytecode'[base + 2 * k - 1]) = 2
              /\ bytecode'[base + 2 * k - 1][1] = "DEF_BLOCK"
              /\ BlockCompiles(constantAt(constants', bytecode'[base + 2 * k - 1][2]),
                               children[k].body.items)
              /\ Pushes(bytecode'[base + 2 * k], children[k].name, constants')
        /\ \A j, k \in 1..n :
              j # k => bytecode'[base + 2 * j - 1][2] # bytecode'[base + 2 * k - 1][2]
        /\ Pushes(bytecode'[base + 2 * n + 1], currentCommand.args[1], constants')
        /\ bytecode'[base + 2 * n + 2] = <<"BIND_WIDGET", n>>

\* C14 -- compiling `bind widget` with n event children appends, for each
\* child in source order, DEF_BLOCK idx (constants[idx] the chunk compiled
\* from that child's body) and the push of the child's event name, then the
\* push of the widget name and BIND_WIDGET n: 2n + 2 instructions, the n
\* chunk constants at n distinct indices.
C14_BindEmitsBlocks == [][C14_Step]_vars

\* a bind with two event children of equal bodies has been compiled
C14_Witness ==
    /\ CompileDone
    /\ Len(programNode.body) = 1
    /\ programNode.body[1].name.value = W_bind
    /\ Len(programNode.body[1].body.items) = 2
    /\ programNode.body[1].body.items[1].body = programNode.body[1].body.items[2].body
    /\ Len(bytecode) = 6
    /\ bytecode[1][1] = "DEF_BLOCK"
    /\ bytecode[3][1] = "DEF_BLOCK"
    /\ bytecode[1][2] # bytecode[3][2]
    /\ bytecode[6] = <<"BIND_WIDGET", 2>>

WidgetConstructors ==
    {W_l, W_label, W_b, W_button, W_i, W_input, W_listbox, W_canvas, W_c, W_container}

W_CONTAINER == <<"C", "O", "N", "T", "A", "I", "N", "E", "R">>

\* the type tag of the family of a widget-constructor name
familyType(name) ==
    CASE name \in {W_l, W_label} -> W_LABEL
      [] name \in {W_b, W_button} -> W_BUTTON
      [] name \in {W_i, W_input} -> W_INPUT
      [] name = W_listbox -> W_LISTBOX
      [] name = W_canvas -> W_CANVAS
      [] OTHER -> W_CONTAINER

\* the step appended [PUSH_CONST options, PUSH_CONST type, push of the widget
\* name, CREATE_WIDGET] for the current command
EmitsCreateWidget(type) ==
    LET base == Len(bytecode) IN
    /\ cerror' = NoError
    /\ Len(bytecode') = base + 4
    /\ SubSeq(bytecode', 1, base) = bytecode
    /\ Len(bytecode'[base + 1]) = 2
    /\ bytecode'[base + 1][1] = "PUSH_CONST"
    /\ constantAt(constants', bytecode'[base + 1][2]).t = "object"
    /\ Len(bytecode'[base + 2]) = 2
    /\ bytecode'[base + 2][1] = "PUSH_CONST"
    /\ constantAt(constants', bytecode'[base + 2][2]) = String(type)
    /\ Pushes(bytecode'[base + 3], currentCommand.args[1], constants')
    /\ bytecode'[base + 4] = <<"CREATE_WIDGET">>

C15_Step ==
    (Compiling(WidgetConstructors) /\ Len(currentCommand.args) >= 1) =>
        EmitsCreateWidget(familyType(currentCommand.name.value))

\* C15 -- for every widget-constructor command name (l, label, b, button,
\* i, input, listbox, canvas, c, container) given a widget name, compiling
\* it appends exactly [PUSH_CONST options, PUSH_CONST type, push of the
\* widget name, CREATE_WIDGET], never CALL_PROC, where type is the
\* upper-cased family name, the same for the short and the long form.
C15_ConstructorsEmitCreateWidget == [][C15_Step]_vars

\* what the compiler does: the cases that spell the family in full and have
\* the arguments their case reads
C15_StepSpelledOut ==
    (/\ Compiling({W_l, W_label, W_b, W_button, W_input, W_listbox, W_canvas})
     /\ Len(currentCommand.args) >= 1
     /\ (currentCommand.name.value \in {W_l, W_label, W_b, W_button}
            => Len(currentCommand.args) >= 2)) =>
        EmitsCreateWidget(familyType(currentCommand.name.value))

C15_SpelledOutEmitCreateWidget == [][C15_StepSpelledOut]_vars

----------------------------------------------------------------------------
(* Interpreter: conf end to end *)

\* the program is `l w "..."` followed by `conf w -k1 v1 ... -kn vn` with
\* distinct option keys and literal values
ConfAfterLabel ==
    /\ cpc = "done"
    /\ Len(programNode.body) = 2
    /\ LET create == programNode.body[1]
           conf == programNode.body[2]
       IN
       /\ create.name.value \in {W_l, W_label}
       /\ Len(create.args) = 2
       /\ conf.name.value = W_conf
       /\ Len(conf.args) >= 3
       /\ Len(conf.args) % 2 = 1
       /\ conf.args[1] = create.args[1]
       /\ \A k \in 1..((Len(conf.args) - 1) \div 2) :
             /\ conf.args[2 * k].type = "Option"
             /\ conf.args[2 * k + 1].type \in {"StringLiteral", "Identifier"}
       /\ \A j, k \in 1..((Len(conf.args) - 1) \div 2) :
             j # k => conf.args[2 * j].value # conf.args[2 * k].value

confArgs == programNode.body[2].args

confPairs == 1..((Len(confArgs) - 1) \div 2)

\* the element property through which the host reports an option
reportedAs(key) ==
    CASE key = W_dash_text -> "textContent"
      [] key = W_dash_bg -> "style.backgroundColor"
      [] key = W_dash_fg -> "style.color"
      [] OTHER -> "value"

C16_Step ==
    ConfAfterLabel =>
        /\ vpc' # "failed"
        /\ (vpc = "running" /\ Executing("UPDATE_WIDGET")) =>
              /\ top(stack) = String(confArgs[1].value)
              /\ top(pop(stack)).t = "object"
              /\ Len(top(pop(stack)).fields) = Cardinality(confPairs)
              /\ \A k \in confPairs :
                    getProperty(top(pop(stack)), confArgs[2 * k].value)
                        = String(confArgs[2 * k + 1].value)
        /\ (vpc = "running" /\ vpc' = "completed") =>
              /\ mapHas(widgets', String(confArgs[1].value))
              /\ \A k \in confPairs :
                    mapGet(mapGet(widgets', String(confArgs[1].value)).props,
                           reportedAs(confArgs[2 * k].value))
                        = String(confArgs[2 * k + 1].value)

\* C16 -- conf end to end: the run of the compilation of `l w "Initial"`
\* followed by `conf w -k1 v1 ... -kn vn` with distinct keys does not fail,
\* calls updateWidget for w with an object mapping every -ki to vi and
\* nothing else, and when it has completed the host reports every vi under
\* the property of -ki (text, backgroundColor).
C16_ConfEndToEnd == [][C16_Step]_vars

\* `l w "x"` then `conf w -text "a" -bg "b"` has run to completion
C16_Witness ==
    /\ ConfAfterLabel
    /\ TopLevelCompleted
    /\ Cardinality(confPairs) = 2
    /\ mapGet(mapGet(widgets, String(W)).props, "textContent") = String(A)
    /\ mapGet(mapGet(widgets, String(W)).props, "style.backgroundColor") = String(B)

----------------------------------------------------------------------------
(* Interpreter: bind end to end *)

\* a JavaScript number
Number(n) == [t |-> "number", v |-> n]

\* the program is `b w "x"` followed by `bind w` / `.click` / `set was_clicked 1`
ClickProgram ==
    /\ cpc = "done"
    /\ programNode.body = <<Leaf(W_b, <<Identifier(W), StringLiteral(X)>>),
                            BindClick(<<SetWord(W_was_clicked, W_1)>>)>>

\* the browser is delivering a click after the top-level run has completed
Clicking ==
    /\ ClickProgram
    /\ vpc = "completed"
    /\ frames # <<>>
    /\ frames[1].kind = "dispatchEvent"

\* the indices 0 .. n - 1 in order
Indices(n) == [i \in 1..n |-> i - 1]

\* one step of the delivery of a click: nothing throws, the run of the
\* handler returns having fetched every instruction of the block once in
\* order, and the dispatch ends after one such run with was_clicked = expected
ClickStep(expected) ==
    Clicking =>
        /\ verror' = NoError
        /\ (Len(frames) = 2 /\ Len(frames') = 1) =>
              /\ ip = Len(TopFrame.bytecode)
              /\ TopFrame.bytecode =
                     compile([type |-> "Program",
                              body |-> <<SetWord(W_was_clicked, W_1)>>]).bytecode
              /\ TopFrame.dispatched = Indices(Len(TopFrame.bytecode))
        /\ frames' = <<>> =>
              /\ frames[1].k = 1
              /\ Len(frames[1].handlers) = 1
              /\ mapGet(state', String(W_was_clicked)) = expected

\* C17 -- binding end to end: after the top-level run of `b w "x"` /
\* `bind w` / `.click` / `set was_clicked 1` has completed, every click
\* dispatched by the host runs the block once from its first to its last
\* instruction, after which the state variable was_clicked is the number 1.
C17_ClickSetsWasClicked == [][ClickStep(Number(1))]_vars

\* what the interpreter does: the same, with was_clicked the string "1"
C17_ClickSetsWasClickedText == [][ClickStep(String(W_1))]_vars

\* a second click has been delivered
C17_Clicked ==
    /\ ClickProgram
    /\ events = 2
    /\ frames = <<>>
    /\ mapGet(state, String(W_was_clicked)) = String(W_1)

----------------------------------------------------------------------------
(* Interpreter: a watcher sees the value that fired it *)

\* the running activation is a watcher called by the forEach of a setState
InWatcher ==
    /\ Running
    /\ Len(frames) >= 2
    /\ frames[Len(frames) - 1].kind = "forEach"

\* the setState whose forEach called the running watcher
firing == frames[Len(frames) - 1]

\* the running chunk is the compilation of `conf w -text {$v}`, v the
\* variable of the setState that fired it
RunsConfTextOfFired ==
    /\ InWatcher
    /\ firing.name.t = "string"
    /\ TopFrame.bytecode =
           compile([type |-> "Program", body |-> <<ConfTextFrom(firing.name.v)>>]).bytecode
    /\ TopFrame.constants =
           compile([type |-> "Program", body |-> <<ConfTextFrom(firing.name.v)>>]).constants

C18_Step ==
    /\ (/\ InWatcher
        /\ Executing("PUSH_VAR")
        /\ constantAt(TopFrame.constants, operand) = firing.name) =>
           top(stack') = firing.value
    /\ (RunsConfTextOfFired /\ Executing("UPDATE_WIDGET")) =>
           /\ top(stack) = String(W)
           /\ top(pop(stack)) = Object(0, <<<<W_dash_text, firing.value>>>>)

\* C18 -- SET_STATE writes before it fires: when a write of x to v fires a
\* watcher, a read of {$v} by the watcher's chunk pushes x; and for a
\* watcher `conf w -text {$v}` updateWidget receives the object {-text: x}.
C18_WatcherSeesWrittenValue == [][C18_Step]_vars

\* setState("a", "b") from outside has fired the watcher `conf w -text {$a}`
\* of a label created with another text, and the label shows "b"
C18_Witness ==
    /\ cpc = "done"
    /\ programNode.body = <<Leaf(W_l, <<Identifier(W), StringLiteral(X)>>),
                            WatchA(<<ConfTextFrom(A)>>)>>
    /\ events = 1
    /\ frames = <<>>
    /\ verror = NoError
    /\ mapGet(state, String(A)) = String(B)
    /\ mapGet(mapGet(widgets, String(W)).props, "textContent") = String(B)

----------------------------------------------------------------------------
(* Interpreter: the operand stack of nested runs *)

\* the step enters a run called while other calls are active (a watcher, an
\* event handler, a procedure body, an HTTP callback)
EntersNestedRun ==
    /\ Len(frames') = Len(frames) + 1
    /\ Len(frames') >= 2
    /\ frames'[Len(frames')].kind = "run"

\* the step is the return of such a run to its caller
LeavesNestedRun ==
    /\ Running
    /\ ~Fetching
    /\ Len(frames) >= 2
    /\ frames' = pop(frames)

\* a nested run finds this.stack empty
C19_StartsEmpty == EntersNestedRun => stack' = <<>>

\* an instruction of a nested run leaves in place what the run found
C19_KeepsEntry ==
    (Running /\ Fetching /\ Len(frames) >= 2) =>
        /\ Len(stack') >= Len(TopFrame.entry)
        /\ SubSeq(stack', 1, Len(TopFrame.entry)) = TopFrame.entry

\* a nested run returns with this.stack as it found it
C19_LeavesNothing == LeavesNestedRun => stack = TopFrame.entry

C19_Step == C19_StartsEmpty /\ C19_KeepsEntry /\ C19_LeavesNothing

\* C19 -- each run has its own operand stack: a nested run (watcher, event
\* handler, procedure body, HTTP callback) finds the operand stack empty
\* when it starts, never reads or pops a value the run that triggered it
\* had pushed, and leaves no value behind when it returns.
C19_NestedRunOwnStack == [][C19_Step]_vars

----------------------------------------------------------------------------
(* Interpreter: the order in which a run fetches its instructions *)

\* every activation of run has fetched the indices 0, 1, 2, ... in order,
\* each once
C20_InOrder ==
    \A j \in 1..Len(frames') :
        frames'[j].kind = "run" =>
            frames'[j].dispatched = Indices(Len(frames'[j].dispatched))

\* the instruction a run fetches is the one after the last it fetched, also
\* when that one called a nested run
C20_Continues == (Running /\ Fetching) => ip = Len(TopFrame.dispatched)

\* a run returns when it has fetched all its k instructions
C20_Halts ==
    (Running /\ ~Fetching /\ frames' = pop(frames)) =>
        TopFrame.dispatched = Indices(Len(TopFrame.bytecode))

C20_Step == C20_InOrder /\ C20_Continues /\ C20_Halts

\* C20 -- every run of a chunk with k instructions dispatches the
\* instructions at indices 0 .. k - 1 each exactly once, in index order,
\* and then halts, also when one of them (a SET_STATE that fires a watcher,
\* a CALL_PROC) causes a nested run of another chunk: after the nested run
\* returns, the outer run continues at the instruction following the one
\* that triggered it.
C20_DispatchInOrder == [][C20_Step]_vars

\* what the interpreter does: the property holds of the runs that call no
\* nested run
C20_StepOfLeafRun ==
    (/\ Running
     /\ \A j \in 1..Len(TopFrame.dispatched) :
           opcodeOf(TopFrame.bytecode[TopFrame.dispatched[j] + 1]) \notin
               {"SET_STATE", "CALL_PROC"}) =>
        /\ C20_Continues
        /\ C20_Halts
        /\ TopFrame.dispatched = Indices(Len(TopFrame.dispatched))

C20_LeafRunsInOrder == [][C20_StepOfLeafRun]_vars

----------------------------------------------------------------------------
(* Interpreter: the parameters of a procedure *)

\* the calling activation of the running one, when that is a run
caller == frames[Len(frames) - 1]

\* the instruction the caller fetched last
callSite == caller.bytecode[caller.dispatched[Len(caller.dispatched)] + 1]

\* the running activation is the body of procedure number q of the
\* registry, entered by CALL_PROC n with n the number of its parameters
InBodyOf(q) ==
    /\ Running
    /\ Len(frames) >= 2
    /\ caller.kind = "run"
    /\ caller.dispatched # <<>>
    /\ opcodeOf(callSite) = "CALL_PROC"
    /\ procs[q][2].block.t = "block"
    /\ procs[q][2].block.bytecode = TopFrame.bytecode
    /\ procs[q][2].block.constants = TopFrame.constants
    /\ operandOf(callSite) = Len(procs[q][2].args)
    /\ Len(TopFrame.entry) >= operandOf(callSite)

\* the i-th argument of the call: the arguments were pushed in order before
\* the procedure name, and are what the body found on the stack
argument(i) ==
    TopFrame.entry[Len(TopFrame.entry) - operandOf(callSite) + i]

C21_Step ==
    \A q \in 1..Len(procs) :
        InBodyOf(q) =>
            /\ \A i \in 1..Len(procs[q][2].args) :
                  (Executing("PUSH_VAR") /\
                   constantAt(TopFrame.constants, operand) = procs[q][2].args[i]) =>
                      top(stack') = argument(i)
            /\ (~Fetching /\ frames' = pop(frames)) =>
                  \A i \in 1..Len(procs[q][2].args) :
                      mapGet(state', procs[q][2].args[i]) =
                          mapGet(TopFrame.before, procs[q][2].args[i])

\* C21 -- CALL_PROC n on a defined procedure with parameters p1..pn binds
\* the n call arguments to the parameters positionally: inside the
\* procedure's chunk PUSH_VAR pi pushes the i-th argument, even when a state
\* entry named pi exists, and when the call returns state[pi] is what it
\* was before the call.
C21_ParametersBound == [][C21_Step]_vars

\* what the interpreter does: PUSH_VAR pi in the body pushes state[pi]
C21_StepReadsState ==
    \A q \in 1..Len(procs) :
        InBodyOf(q) =>
            \A i \in 1..Len(procs[q][2].args) :
                (Executing("PUSH_VAR") /\
                 constantAt(TopFrame.constants, operand) = procs[q][2].args[i]) =>
                    top(stack') = mapGet(state, procs[q][2].args[i])

C21_ParametersReadState == [][C21_StepReadsState]_vars

----------------------------------------------------------------------------
(* Interpreter: the outcome of an HTTP request *)

\* the step starts the .then handler of a request: its fetch succeeded
EntersThen == frames = <<>> /\ frames' # <<>> /\ frames'[1].kind = "then"

\* the step starts the .catch handler of a request
EntersCatch == frames = <<>> /\ frames' # <<>> /\ frames'[1].kind = "catch"

\* the step calls run on a callback chunk from a handler of the promise chain
RunsCallbackChunk ==
    /\ Len(frames) = 1
    /\ frames[1].kind \in {"then", "catch"}
    /\ Len(frames') = 2
    /\ frames'[2].kind = "run"

C22_Step ==
    /\ EntersThen =>
          /\ mapHas(state', String(W_http_response))
          /\ mapGet(state', String(W_error)) = mapGet(state, String(W_error))
    /\ EntersCatch =>
          /\ \A i \in 1..Len(fetches) : fetches[i].settled = "pending"
          /\ mapHas(state', String(W_error))
          /\ mapGet(state', String(W_http_response)) = mapGet(state, String(W_http_response))
    /\ RunsCallbackChunk =>
          /\ frames'[2].bytecode =
                mapGet(frames[1].callbacks,
                       IF frames[1].kind = "then" THEN W_dot_callback
                       ELSE W_dot_error).bytecode
          /\ frames'[2].constants =
                mapGet(frames[1].callbacks,
                       IF frames[1].kind = "then" THEN W_dot_callback
                       ELSE W_dot_error).constants

\* C22 -- for every executed HTTP_GET whose fetch completes exactly one
\* outcome is applied: on success http_response is written and only the
\* .callback chunk runs, on failure error is written and only the .error
\* chunk runs; for a request whose fetch succeeded (its .then handler has
\* started) error is never written and the .error chunk never runs,
\* whatever the .callback chunk does.
C22_OneOutcome == [][C22_Step]_vars

\* what the interpreter does: the same, for the requests whose .then handler
\* did not throw
C22_StepNoThrow ==
    (\A i \in 1..Len(fetches) : fetches[i].settled = "pending") => C22_Step

C22_OneOutcomeNoThrow == [][C22_StepNoThrow]_vars

----------------------------------------------------------------------------
(* Interpreter: a handler run after a failed invocation *)

\* the top-level run completed and a later invocation (a handler, a watcher,
\* an HTTP callback) has thrown
InvocationFailed == vpc = "completed" /\ verror # NoError

\* an event handler is running after such a failure
HandlerAfterFailure ==
    /\ InvocationFailed
    /\ Len(frames) = 2
    /\ frames[1].kind = "dispatchEvent"
    /\ Running

\* the chunk is the compilation of one `set name "value"`
isSetChunk(frame) ==
    /\ Len(frame.bytecode) = 3
    /\ opcodeOf(frame.bytecode[1]) = "PUSH_CONST"
    /\ opcodeOf(frame.bytecode[2]) = "PUSH_CONST"
    /\ frame.bytecode[3] = <<"SET_STATE">>

C23_Step ==
    HandlerAfterFailure =>
        /\ Fetching =>
              /\ ip = Len(TopFrame.dispatched)
              /\ Len(stack') >= Len(TopFrame.entry)
              /\ SubSeq(stack', 1, Len(TopFrame.entry)) = TopFrame.entry
              /\ opcodeOf(instruction) \in {"PUSH_CONST", "PUSH_VAR", "DEF_BLOCK"} =>
                    /\ <<state, widgets, procs, watchers>>' = <<state, widgets, procs, watchers>>
                    /\ verror' = verror
        /\ (~Fetching /\ frames' = pop(frames)) =>
              /\ TopFrame.dispatched = Indices(Len(TopFrame.bytecode))
              /\ stack = TopFrame.entry
              /\ isSetChunk(TopFrame) =>
                    /\ state = mapSet(TopFrame.before,
                                      constantAt(TopFrame.constants,
                                                 operandOf(TopFrame.bytecode[2])),
                                      constantAt(TopFrame.constants,
                                                 operandOf(TopFrame.bytecode[1])))
                    /\ verror' = verror

----------------------------------------------------------------------------
(* Compiler: commands that lack an argument or a block *)

BlockCommands == {W_watch, W_proc, W_bind, W_httpdot_get}

\* the command lacks a required argument or a required block
Malformed(command) ==
    LET name == command.name.value
        args == command.args
    IN
    CASE name = W_set -> Len(args) < 2
      [] name \in WidgetConstructors -> Len(args) = 0
      [] name = W_conf -> Len(args) >= 2 /\ Len(args) % 2 = 0
      [] name \in {W_watch, W_proc} -> command.body.isNull
      [] name \in {W_bind, W_httpdot_get} ->
           IF command.body.isNull THEN TRUE
           ELSE \E k \in 1..Len(command.body.items) : command.body.items[k].body.isNull
      [] OTHER -> FALSE

\* the error names the command: an error is its message followed by the
\* texts the message quotes, and the command's name is one of them
Names(error, command) ==
    \E k \in 2..Len(error) : error[k] = command.name.value

C24_Step ==
    (CompilingCommand /\ Malformed(currentCommand)) =>
        /\ cpc' = "failed"
        /\ cerror' # NoError
        /\ Names(cerror', currentCommand)

\* C24 -- compiling a command that lacks a required argument or a required
\* block (set with fewer than two arguments, a widget constructor without a
\* name, conf with an option that has no value, watch, proc, bind, http.get
\* or an event child without a body) fails with an error that names the
\* offending command, and yields no chunk.
C24_MalformedCommandNamed == [][C24_Step]_vars

\* what the compiler does: compile throws a TypeError, which names nothing
C24_StepThrows ==
    (CompilingCommand /\ Malformed(currentCommand)) =>
        /\ cpc' = "failed"
        /\ cerror' = ErrCompileTypeError

C24_MalformedCommandThrows == [][C24_StepThrows]_vars

----------------------------------------------------------------------------
(* Compiler: object constants *)

\* two pool entries are structurally equal: equal scalars, or objects with
\* the same keys and values whatever their identity
StructurallyEqual(a, b) ==
    IF a.t = "object" /\ b.t = "object" THEN a.fields = b.fields
    ELSE a = b

NoStructurallyEqual(pool) ==
    \A i, j \in 1..Len(pool) :
        (i < j /\ pool[i].t \in {"string", "number", "object"}) =>
            ~StructurallyEqual(pool[i], pool[j])

\* C25 -- addConstant deduplicates by structural equality, objects included:
\* no pool of a compiled chunk holds two structurally equal entries, so two
\* widget constructors in a chunk whose options objects are equal (`i a` and
\* `i b`, both {}) share one pool entry and their PUSH_CONST instructions
\* carry the same index.
C25_ObjectConstantsShared ==
    CompileDone =>
        /\ \A pool \in PoolsOf(constants) : NoStructurallyEqual(pool)
        /\ programNode.body = <<Leaf(W_i, <<Identifier(A)>>), Leaf(W_i, <<Identifier(B)>>)>>
              => bytecode[1] = bytecode[5]

\* what the compiler does: `i a` and `i b` pool two objects {}
C25_TwoObjects ==
    /\ CompileDone
    /\ programNode.body = <<Leaf(W_i, <<Identifier(A)>>), Leaf(W_i, <<Identifier(B)>>)>>
    /\ Len(constants) = 5
    /\ constants[1].t = "object"
    /\ constants[4].t = "object"
    /\ constants[1].fields = constants[4].fields
    /\ bytecode[1] = <<"PUSH_CONST", 0>>
    /\ bytecode[5] = <<"PUSH_CONST", 3>>

----------------------------------------------------------------------------
(* Interpreter: watcher cascades *)

\* the running activation is a watcher, and it returns in this step
WatcherReturns ==
    /\ InWatcher
    /\ ~Fetching
    /\ frames' = pop(frames)

\* the activation has fired a watcher of another variable: it has fetched a
\* SET_STATE and the forEach of that setState was called by it
cascaded(frame) ==
    \E j \in 1..Len(frame.dispatched) :
        /\ frame.dispatched[j] < Len(frame.bytecode)
        /\ opcodeOf(frame.bytecode[frame.dispatched[j] + 1]) = "SET_STATE"

C26_Step ==
    \* only the innermost run fetches: a watcher fired by a cascade runs to
    \* its end before the watcher that fired it goes on
    /\ \A j \in 1..Len(frames) :
          (j < Len(frames) /\ j <= Len(frames') /\ frames[j].kind = "run"
             /\ frames'[j].kind = "run") =>
                frames'[j].dispatched = frames[j].dispatched
    \* the watcher that cascaded then executes all its remaining instructions
    /\ (WatcherReturns /\ cascaded(TopFrame)) =>
          TopFrame.dispatched = Indices(Len(TopFrame.bytecode))
    \* the next watcher of a variable is called when the one before has ended
    /\ \A j \in 1..Len(frames) :
          (j <= Len(frames') /\ frames[j].kind = "forEach"
             /\ frames'[j].kind = "forEach" /\ frames'[j].k # frames[j].k) =>
                j = Len(frames)

\* C26 -- watcher cascades are synchronous and depth-first: when a watcher
\* W1 fired for v executes SET_STATE on u, which has a watcher W2, W2 runs
\* to its end before W1's next instruction, W1 then executes all of its
\* remaining instructions, and only after W1 has ended is the next watcher
\* registered for v called.
C26_CascadeDepthFirst == [][C26_Step]_vars

\* what the interpreter does: the cascade is synchronous and depth-first,
\* but W1 does not always go on where it was
C26_StepNesting ==
    /\ \A j \in 1..Len(frames) :
          (j < Len(frames) /\ j <= Len(frames') /\ frames[j].kind = "run"
             /\ frames'[j].kind = "run") =>
                frames'[j].dispatched = frames[j].dispatched
    /\ \A j \in 1..Len(frames) :
          (j <= Len(frames') /\ frames[j].kind = "forEach"
             /\ frames'[j].kind = "forEach" /\ frames'[j].k # frames[j].k) =>
                j = Len(frames)

C26_CascadeNested == [][C26_StepNesting]_vars

\* W1, six instructions long, has returned after three: its SET_STATE on b
\* fired W2, six instructions long, which left this.ip at 6
C26_Skipped ==
    /\ InWatcher
    /\ firing.name = String(A)
    /\ ~Fetching
    /\ Len(TopFrame.bytecode) = 6
    /\ TopFrame.dispatched = <<0, 1, 2>>
    /\ ip = 6

----------------------------------------------------------------------------
(* Interpreter: termination of the top-level run *)

\* the top-level commands of the program that register a watcher
WatchCommands ==
    {k \in 1..Len(programNode.body) :
        /\ programNode.body[k].name.value = W_watch
        /\ Len(programNode.body[k].args) >= 1
        /\ ~programNode.body[k].body.isNull}

\* the variables the commands of a block write
writtenBy(items) ==
    {items[i].args[1].value :
        i \in {i \in 1..Len(items) : items[i].name.value = W_set /\ Len(items[i].args) >= 1}}

\* the variables written by the watchers of the variables vs
firedBy(vs) ==
    UNION {writtenBy(programNode.body[k].body.items) :
              k \in {k \in WatchCommands : programNode.body[k].args[1].value \in vs}}

\* the variables written, directly or through a cascade of at most n
\* watchers, by the watchers of the variables vs
RECURSIVE cascadeOf(_, _)
cascadeOf(vs, n) ==
    IF n = 0 THEN {} ELSE firedBy(vs) \cup cascadeOf(firedBy(vs), n - 1)

\* no watcher writes, directly or through a cascade, the variable it watches
NoWatcherCycle ==
    \A k \in WatchCommands :
        programNode.body[k].args[1].value \notin
            cascadeOf({programNode.body[k].args[1].value}, Len(programNode.body))

\* no procedure calls itself
NoRecursiveProcedure ==
    \A k \in 1..Len(programNode.body) :
        (/\ programNode.body[k].name.value = W_proc
         /\ Len(programNode.body[k].args) >= 1
         /\ ~programNode.body[k].body.isNull) =>
            \A i \in 1..Len(programNode.body[k].body.items) :
                programNode.body[k].body.items[i].name.value
                    # programNode.body[k].args[1].value

\* the top-level run has returned or thrown
Halted == vpc \in {"completed", "failed"}

\* C27 -- running the top-level chunk of a program with no watcher cycle
\* and no recursive procedure terminates; in particular `watch a` with a
\* body that writes only the unwatched b, followed by `set a "x"`, halts.
C27_TopLevelRunTerminates ==
    (cpc = "done" /\ vpc = "running" /\ NoWatcherCycle /\ NoRecursiveProcedure) ~> Halted

\* the top-level run of `watch a` / `set b "x"` followed by `set a "x"` is
\* fetching index 3 for the third time
C27_Looping ==
    /\ programNode.body = <<WatchA(<<SetString(B, X)>>), SetString(A, X)>>
    /\ NoWatcherCycle
    /\ NoRecursiveProcedure
    /\ vpc = "running"
    /\ Len(frames) = 1
    /\ frames[1].dispatched = <<0, 1, 2, 3, 4, 5, 3, 4, 5>>
    /\ ip = 3

----------------------------------------------------------------------------
(* Interpreter: HTTP callbacks run after the run that issued the request *)

\* a callback chunk of a request is running, or the handler that calls it
InHttpHandler == frames # <<>> /\ frames[1].kind \in {"then", "catch"}

\* the activation fetched HTTP_GET as its j-th fetch
fetchedHttpGet(frame, j) ==
    /\ frame.dispatched[j] < Len(frame.bytecode)
    /\ opcodeOf(frame.bytecode[frame.dispatched[j] + 1]) = "HTTP_GET"

C28_Step ==
    \* HTTP_GET calls nothing: the run that issued it goes on
    /\ Executing("HTTP_GET") =>
          /\ Len(frames') = Len(frames)
          /\ frames'[Len(frames')].kind = "run"
          /\ ip' = ip + 1
    \* a run that issued a request returns having fetched, after it, each of
    \* the instructions that follow it
    /\ (Running /\ ~Fetching /\ frames' = pop(frames)) =>
          \A j \in 1..Len(TopFrame.dispatched) :
              fetchedHttpGet(TopFrame, j) =>
                  SubSeq(TopFrame.dispatched, j, Len(TopFrame.dispatched)) =
                      [i \in 1..(Len(TopFrame.bytecode) - TopFrame.dispatched[j])
                          |-> TopFrame.dispatched[j] + i - 1]
    \* a handler of a request starts when every run has finished
    /\ (EntersThen \/ EntersCatch) => (frames = <<>> /\ Halted)
    \* the callback chunk starts at its first instruction, nothing else runs
    \* until it ends, and it returns having fetched all its instructions
    /\ InHttpHandler =>
          /\ events' = events
          /\ vpc' = vpc
          /\ frames' # <<>> => frames'[1].kind = frames[1].kind
          /\ (Len(frames) = 2 /\ Running /\ Fetching) => ip = Len(TopFrame.dispatched)
          /\ (Len(frames) = 2 /\ Running /\ ~Fetching /\ frames' = pop(frames)) =>
                TopFrame.dispatched = Indices(Len(TopFrame.bytecode))

\* C28 -- HTTP_GET returns without running any callback chunk: the run that
\* issued it executes all of its remaining instructions, and every
\* enclosing run finishes, before the first instruction of a callback chunk
\* executes; a callback chunk once started runs to its end without
\* interleaving with any other run.
C28_CallbacksRunLater == [][C28_Step]_vars

\* the .callback chunk of a request issued by a completed top-level run has
\* run and written its variable
C28_Witness ==
    /\ cpc = "done"
    /\ vpc = "completed"
    /\ programNode.body = <<HttpGetX>>
    /\ frames = <<>>
    /\ fetches = <<>>
    /\ verror = NoError
    /\ mapHas(state, String(W_http_response))
    /\ mapGet(state, String(A)) = String(X)

----------------------------------------------------------------------------
(* Interpreter: CALL_PROC of a procedure that is not defined *)

\* CALL_PROC is about to pop a name that the procedure table does not hold
CallsAbsentProc == Executing("CALL_PROC") /\ ~mapHas(procs, top(stack))

C29_Step ==
    CallsAbsentProc =>
        /\ verror' = ErrProcedureNotFound(top(stack))
        \* the run, and every run that encloses it, is gone from the call stack
        /\ \A i \in 1..Len(frames') : frames'[i].kind # "run"
        /\ Len(frames') < Len(frames)
        /\ vpc = "running" => vpc' = "failed"
        /\ UNCHANGED <<state, widgets, procs, watchers>>

\* C29 -- CALL_PROC naming a procedure that is absent from the procedure
\* table at the moment of the call aborts the current run with an error: no
\* later instruction of that chunk is dispatched, and state, widgets, procs
\* and watchers are unchanged by the failing instruction.
C29_AbsentProcAborts == [][C29_Step]_vars

\* the top-level run called an undefined procedure ahead of other commands
\* and failed without dispatching them
C29_Witness ==
    /\ vpc = "failed"
    /\ frames = <<>>
    /\ verror = ErrProcedureNotFound(String(P))
    /\ ~mapHas(procs, String(P))
    /\ events = 0
    /\ ip < Len(bytecode)

----------------------------------------------------------------------------
(* Interpreter: the code of a proc command *)

\* The code of `proc p a1 ... an [body]` ends at the DEF_PROC n about to be
\* dispatched: DEF_BLOCK, n + 1 PUSH_CONST and DEF_PROC n, the first n + 2
\* of them being the last instructions this activation has dispatched.
ExecutesProcCommand ==
    /\ Executing("DEF_PROC")
    /\ operand >= 0
    /\ ip >= operand + 2
    /\ opcodeOf(TopFrame.bytecode[ip - operand - 1]) = "DEF_BLOCK"
    /\ \A i \in (ip - operand)..ip : opcodeOf(TopFrame.bytecode[i]) = "PUSH_CONST"
    /\ Len(TopFrame.dispatched) >= operand + 2
    /\ \A i \in 1..(operand + 2) :
          TopFrame.dispatched[Len(TopFrame.dispatched) - (operand + 2) + i] =
              ip - (operand + 2) + i - 1

\* the constant pushed by the instruction at the zero-based index i
pushedAt(i) == constantAt(TopFrame.constants, operandOf(TopFrame.bytecode[i + 1]))

\* the first command of the program that was compiled, when it is a proc
\* with a block body whose code the top-level run is finishing
FirstCommandIsProc ==
    /\ cpc = "done"
    /\ Len(frames) = 1
    /\ programNode.body # <<>>
    /\ programNode.body[1].name.value = W_proc
    /\ ~programNode.body[1].body.isNull
    /\ ip = Len(programNode.body[1].args) + 1

C30_Step ==
    /\ ExecutesProcCommand =>
          /\ mapGet(procs', pushedAt(ip - 1)) =
                [args |-> [i \in 1..operand |-> pushedAt(ip - operand - 2 + i)],
                 block |-> pushedAt(ip - operand - 2)]
          /\ Len(stack) >= operand + 2
          /\ stack' = SubSeq(stack, 1, Len(stack) - (operand + 2))
          /\ Len(procs') = IF mapHas(procs, pushedAt(ip - 1))
                           THEN Len(procs) ELSE Len(procs) + 1
          /\ \A k \in 1..Len(procs) :
                procs[k][1] # pushedAt(ip - 1) => procs'[k] = procs[k]
    /\ (ExecutesProcCommand /\ FirstCommandIsProc) =>
          LET args == programNode.body[1].args IN
          /\ stack' = <<>>
          /\ mapGet(procs', String(args[1].value)).args =
                [i \in 1..(Len(args) - 1) |-> String(args[i + 1].value)]
          /\ mapGet(procs', String(args[1].value)).block = constantAt(constants, 0)

\* C30 -- After executing the code compiled from `proc p a1 ... an` with a
\* block body, the procedure table maps p to the parameters [a1, ..., an] in
\* declaration order together with the chunk compiled from that body, the
\* operand stack is back to its height before the command, and no other
\* procedure entry changed; a later definition of p replaces the earlier
\* one.
C30_ProcDefined == [][C30_Step]_vars

\* `proc p a [...]`, `proc x [...]` and `proc p a b [...]` have run: p has
\* the two parameters of the later definition, in order, and its body, and
\* x is as it was defined
C30_Witness ==
    /\ vpc = "completed"
    /\ Len(programNode.body) = 3
    /\ programNode.body[3].name.value = W_proc
    /\ Len(procs) = 2
    /\ procs[1][1] = String(P)
    /\ procs[1][2].args = <<String(A), String(B)>>
    /\ procs[1][2].block = constantAt(constants, 5)
    /\ procs[2] = <<String(X), [args |-> <<>>, block |-> constantAt(constants, 3)]>>
    /\ stack = <<>>

----------------------------------------------------------------------------
(* Interpreter: BIND_WIDGET pairs every event with its own block *)

\* The code of a bind command with n event children ends at the
\* BIND_WIDGET n about to be dispatched: n times DEF_BLOCK and PUSH_CONST,
\* the PUSH_CONST of the widget name and BIND_WIDGET n, the first 2n + 1 of
\* them being the last instructions this activation has dispatched.
ExecutesBindCommand ==
    /\ Executing("BIND_WIDGET")
    /\ operand >= 0
    /\ ip >= 2 * operand + 1
    /\ opcodeOf(TopFrame.bytecode[ip]) = "PUSH_CONST"
    /\ \A j \in 1..operand :
          /\ opcodeOf(TopFrame.bytecode[ip - 2 * (operand - j + 1)]) = "DEF_BLOCK"
          /\ opcodeOf(TopFrame.bytecode[ip - 2 * (operand - j + 1) + 1]) = "PUSH_CONST"
    /\ Len(TopFrame.dispatched) >= 2 * operand + 1
    /\ \A i \in 1..(2 * operand + 1) :
          TopFrame.dispatched[Len(TopFrame.dispatched) - (2 * operand + 1) + i] =
              ip - (2 * operand + 1) + i - 1

\* the block and the name pushed for the j-th event child
eventBlock(j) == pushedAt(ip - 1 - 2 * (operand - j + 1))
eventName(j) == pushedAt(ip - 2 * (operand - j + 1))

DistinctEvents == \A j, k \in 1..operand : j # k => eventName(j) # eventName(k)

\* the handlers object BIND_WIDGET passes to bindWidget
handlersPassed == bindHandlers(pop(stack), operand, <<>>).handlers

\* the bind command is the last command of the program that was compiled
\* and the top-level run is finishing its code
LastCommandIsBind ==
    /\ cpc = "done"
    /\ Len(frames) = 1
    /\ programNode.body # <<>>
    /\ programNode.body[Len(programNode.body)].name.value = W_bind
    /\ ~programNode.body[Len(programNode.body)].body.isNull
    /\ ip = Len(bytecode) - 1

C31_Step ==
    /\ (ExecutesBindCommand /\ DistinctEvents) =>
          /\ Len(handlersPassed) = operand
          /\ \A j \in 1..operand :
                /\ eventName(j).t = "string"
                /\ mapHas(handlersPassed, substring1(eventName(j).v))
                /\ mapGet(handlersPassed, substring1(eventName(j).v)) = eventBlock(j)
          /\ verror' = verror
          /\ mapHas(widgets, top(stack)) =>
                mapGet(widgets', top(stack)).listeners =
                    mapGet(widgets, top(stack)).listeners \o handlersPassed
    /\ (ExecutesBindCommand /\ DistinctEvents /\ LastCommandIsBind) =>
          LET children == programNode.body[Len(programNode.body)].body.items IN
          /\ operand = Len(children)
          /\ \A j \in 1..Len(children) :
                /\ <<".">> \o substring1(children[j].name.value) = children[j].name.value
                /\ mapHas(handlersPassed, substring1(children[j].name.value))
                \* the block compiler numbers the objects it creates from the
                \* count its parent has reached
                /\ \E id \in 1..nextId :
                      LET compiled == compileBody(newCompiler(id), children[j].body) IN
                      /\ mapGet(handlersPassed, substring1(children[j].name.value)).bytecode =
                            compiled.bytecode
                      /\ mapGet(handlersPassed, substring1(children[j].name.value)).constants =
                            compiled.constants

\* C31 -- BIND_WIDGET n pairs every event with its own block: for a bind
\* with n event children with distinct names, the handler map passed to
\* bind_widget has exactly n keys, each the event name with its leading `.`
\* removed, and the handler under each key runs the chunk compiled from
\* that same child's body (never another child's).
C31_BindPairsEvents == [][C31_Step]_vars

\* a bind with the children .click and .key has run: the button listens to
\* click with the chunk that calls p and to key with the chunk that sets a
C31_Witness ==
    /\ vpc = "completed"
    /\ mapHas(widgets, String(W))
    /\ LET listeners == mapGet(widgets, String(W)).listeners IN
       /\ Len(listeners) = 2
       /\ mapHas(listeners, <<"c", "l", "i", "c", "k">>)
       /\ mapHas(listeners, <<"k", "e", "y">>)
       /\ \E i \in 1..Len(mapGet(listeners, <<"c", "l", "i", "c", "k">>).bytecode) :
             opcodeOf(mapGet(listeners, <<"c", "l", "i", "c", "k">>).bytecode[i]) = "CALL_PROC"
       /\ \E i \in 1..Len(mapGet(listeners, <<"k", "e", "y">>).bytecode) :
             opcodeOf(mapGet(listeners, <<"k", "e", "y">>).bytecode[i]) = "SET_STATE"

----------------------------------------------------------------------------
(* Interpreter: an instruction that finds too few operands *)

\* the number of values the instruction pops
consumes(instr) ==
    CASE opcodeOf(instr) \in {"SET_STATE", "UPDATE_WIDGET", "PACK_WIDGET", "WATCH_STATE"} -> 2
      [] opcodeOf(instr) = "CREATE_WIDGET" -> 3
      [] opcodeOf(instr) = "BUILD_OBJ" -> 2 * operandOf(instr)
      [] opcodeOf(instr) \in {"BIND_WIDGET", "HTTP_GET"} -> 2 * operandOf(instr) + 1
      [] opcodeOf(instr) = "DEF_PROC" -> operandOf(instr) + 2
      [] opcodeOf(instr) = "CALL_PROC" -> 1
      [] OTHER -> 0

Underflows == Fetching /\ Len(stack) < consumes(instruction)

C32_Step ==
    Underflows =>
        /\ verror' # NoError
        /\ \A i \in 1..Len(frames') : frames'[i].kind # "run"
        /\ state' = state
        /\ widgets' = widgets

\* C32 -- Stack underflow is a runtime error: executing an instruction when
\* the operand stack holds fewer items than the instruction consumes (for
\* example SET_STATE, CREATE_WIDGET or BUILD_OBJ n on a too-short stack)
\* aborts the run with an error instead of proceeding with missing
\* operands, and performs no write to state or to the widget registry.
C32_UnderflowIsError == [][C32_Step]_vars

\* SET_STATE on an empty stack has run to completion and has written the
\* entry undefined -> undefined
C32_WroteUndefined ==
    /\ cpc = "off"
    /\ vpc = "completed"
    /\ verror = NoError
    /\ mapHas(state, undefined)

\* CREATE_WIDGET after BUILD_OBJ 1 on an empty stack has registered a widget
\* from two operands
C32_WidgetFromMissingOperand ==
    /\ cpc = "off"
    /\ vpc = "completed"
    /\ verror = NoError
    /\ mapHas(widgets, String(W))

----------------------------------------------------------------------------
(* Interpreter: the POP opcode *)

C33_Step ==
    (Fetching /\ opcodeOf(instruction) = "POP") =>
        /\ stack' = pop(stack)
        /\ UNCHANGED <<state, widgets, procs, watchers>>
        /\ verror' = verror
        /\ ip' = ip + 1
        /\ Len(frames') = Len(frames)
        /\ frames'[Len(frames')].kind = "run"

\* C33 -- Executing the POP opcode removes exactly the top value of the
\* operand stack, leaves the rest of the stack and all runtime state
\* unchanged, and execution continues with the next instruction.
C33_PopRemovesTop == [][C33_Step]_vars

\* the run of PUSH_CONST, POP has failed on POP and left the value pushed
C33_PopUnknown ==
    /\ cpc = "off"
    /\ vpc = "failed"
    /\ verror = ErrUnknownOpcode("POP")
    /\ stack = <<String(X)>>

----------------------------------------------------------------------------
(* Runtime: which instruction writes which store *)

\* the entries of the Map this.widgets: each name with the element it was
\* registered with (the element's later properties, style and listeners
\* are the element's, not the Map's)
registered(registry) ==
    [k \in 1..Len(registry) |->
        <<registry[k][1], registry[k][2].tagName, registry[k][2].id>>]

\* runtime.setState called from outside the interpreter
HostCallsSetState ==
    /\ frames = <<>>
    /\ ~EntersThen
    /\ ~EntersCatch
    /\ \E name \in HostNames : \E value \in HostValues :
          state' = setStateWrite(state, name, value)

C34_Step ==
    /\ state' # state =>
          Executing("SET_STATE") \/ EntersThen \/ EntersCatch \/ HostCallsSetState
    /\ (EntersThen /\ state' # state) =>
          \E data \in ResponseData :
              state' = setStateWrite(state, String(W_http_response), data)
    /\ (EntersCatch /\ state' # state) =>
          \E k \in 1..Len(state') :
              /\ state'[k][1] = String(W_error)
              /\ \A j \in 1..Len(state) : state[j][1] # String(W_error) => state'[j] = state[j]
    /\ registered(widgets') # registered(widgets) => Executing("CREATE_WIDGET")
    /\ procs' # procs => Executing("DEF_PROC")
    /\ watchers' # watchers => Executing("WATCH_STATE")
    /\ (Fetching /\ opcodeOf(instruction) \in {"PUSH_CONST", "PUSH_VAR", "DEF_BLOCK", "BUILD_OBJ"}) =>
          UNCHANGED <<state, widgets, procs, watchers>>

\* C34 -- Each process-wide store is written only by its own operations:
\* the state map changes only in SET_STATE (and in an HTTP completion
\* writing http_response or error), the widget registry only in
\* CREATE_WIDGET, the procedure table only in DEF_PROC, and the watcher
\* lists only in WATCH_STATE; PUSH_CONST, PUSH_VAR, DEF_BLOCK and BUILD_OBJ
\* leave all four unchanged.
C34_StoresWrittenByOwnOperations == [][C34_Step]_vars

\* a label was created, packed and a variable set: the registry holds the
\* label, whose style PACK_WIDGET has changed, and the state holds a
C34_Witness ==
    /\ vpc = "completed"
    /\ registered(widgets) = <<<<String(W), "LABEL", String(W)>>>>
    /\ mapHas(widgets[1][2].props, "style.width")
    /\ mapHas(state, String(A))

----------------------------------------------------------------------------
(* Parser: indenting on an empty block *)

\* _buildTree is about to process the analysed line lineIdx
BuildsLine == ppc = "build" /\ lineIdx <= Len(processedLines)

C35_Step ==
    /\ (BuildsLine /\ lineIdx = 1) =>
          (perror' = ErrEmptyBlock <=> processedLines[1].indent = 1)
    /\ (BuildsLine /\ lineIdx > 1) => perror' # ErrEmptyBlock
    /\ (BuildsLine /\ lineIdx > 1 /\ processedLines[lineIdx].indent = currentIndent + 1) =>
          /\ arrays[Last(bodyStack)] # <<>>
          /\ perror' = NoError

C35_Outcome ==
    (ppc \in {"done", "failed"} /\ processedLines # <<>>) =>
        (perror = ErrEmptyBlock <=> (ppc = "failed" /\ processedLines[1].indent = 1))

\* C35 -- Parse fails with "Indentation error: cannot indent on an empty
\* block." exactly when the first analysed line has indent level 1; for
\* every later line that increases the indent by one, the body on top of
\* the stack is non-empty and this error cannot occur.
C35_EmptyBlockOnlyFirstLine == [][C35_Step]_vars /\ []C35_Outcome

\* the first analysed line of a source of several lines is indented by one
\* level and parse has failed on it
C35_Witness ==
    /\ ppc = "failed"
    /\ perror = ErrEmptyBlock
    /\ Len(processedLines) >= 2
    /\ processedLines[1].indent = 1
    /\ lineIdx = 2

\* a later line has opened a body under the command before it
C35_LaterIndent ==
    /\ ppc = "build"
    /\ lineIdx > 2
    /\ currentIndent >= 1
    /\ Len(bodyStack) >= 2
    /\ perror = NoError

----------------------------------------------------------------------------
(* Parser: a quoted span that never closes *)

\* the double quotes of a line pair off from the left; with an odd number
\* of them the last one opens a span that never closes
unclosedQuote(line) ==
    Cardinality({i \in 1..Len(line) : line[i] = "\""}) % 2 = 1

HasUnclosedQuote == \E k \in 1..Len(sourceCode) : unclosedQuote(sourceCode[k])

\* C36 -- A line containing a double quote that is never closed (a
\* malformed quoted span) makes parse fail with a lexical error instead of
\* producing a Program in which the dangling `"` is part of an Identifier or
\* splits the intended string into several arguments.
C36_UnclosedQuoteRejected ==
    (HasUnclosedQuote /\ ppc \in {"done", "failed"}) => (ppc = "failed" /\ perror # NoError)

\* parse has returned a Program for `a "a a`: the intended string is the
\* two arguments Identifier "a and Identifier a
C36_DanglingQuoteParsed ==
    /\ ppc = "done"
    /\ sourceCode = <<<<"a", " ", "\"", "a", " ", "a">>>>
    /\ perror = NoError
    /\ Len(nodes) = 1
    /\ nodes[1].args = <<[type |-> "Identifier", value |-> <<"\"", "a">>],
                         [type |-> "Identifier", value |-> <<"a">>]>>

----------------------------------------------------------------------------
(* Compiler: every chunk refers to its own pool *)

PoolOpcodes == {"PUSH_CONST", "PUSH_VAR", "DEF_BLOCK"}

\* every operand of the chunk that is a pool index is an index of its pool,
\* every DEF_BLOCK names a block of it, and every constant of the pool is
\* named by an instruction of the chunk
ownPool(code, pool) ==
    /\ \A i \in 1..Len(code) :
          opcodeOf(code[i]) \in PoolOpcodes =>
              /\ operandOf(code[i]) >= 0
              /\ operandOf(code[i]) < Len(pool)
              /\ opcodeOf(code[i]) = "DEF_BLOCK" => pool[operandOf(code[i]) + 1].t = "block"
    /\ \A k \in 1..Len(pool) :
          \E i \in 1..Len(code) :
              /\ opcodeOf(code[i]) \in PoolOpcodes
              /\ operandOf(code[i]) = k - 1

\* ownPool for the chunk and, level by level, for the blocks of its pool
RECURSIVE isolated(_, _)
isolated(code, pool) ==
    /\ ownPool(code, pool)
    /\ \A k \in 1..Len(pool) :
          pool[k].t = "block" => isolated(pool[k].bytecode, pool[k].constants)

\* C37 -- Chunk isolation: in every chunk the compiler produces, at any
\* nesting depth, each PUSH_CONST, PUSH_VAR and DEF_BLOCK operand is a valid
\* index into that same chunk's constants, every DEF_BLOCK operand indexes a
\* chunk constant, and every nested chunk starts from an empty pool so that
\* its constants hold only values its own instructions or nested blocks
\* use.
C37_ChunkIsolation ==
    (cpc \in {"compile", "done"} /\ cerror = NoError) =>
        isolated(bytecode, constants)

\* compile has returned a chunk with a block that holds a block, each pool
\* with a constant the other pools lack
C37_Witness ==
    /\ cpc = "done"
    /\ \E k \in 1..Len(constants) :
          /\ constants[k].t = "block"
          /\ \E j \in 1..Len(constants[k].constants) :
                /\ constants[k].constants[j].t = "block"
                /\ constants[k].constants[j].constants # <<>>
                /\ \A i \in 1..Len(constants[k].constants[j].constants) :
                      /\ indexOf(constants, constants[k].constants[j].constants[i]) = -1
          /\ Len(constants) >= 2

----------------------------------------------------------------------------
(* Compiler: which commands reach a chunk *)

\* the Command nodes of a body, at any depth
RECURSIVE commandsIn(_)
commandsIn(commands) ==
    IF commands = <<>> THEN 0
    ELSE 1 + (IF Head(commands).body.isNull THEN 0
              ELSE commandsIn(Head(commands).body.items))
           + commandsIn(Tail(commands))

\* the instruction that ends the code of a command
EndOpcodes ==
    {"SET_STATE", "CREATE_WIDGET", "UPDATE_WIDGET", "PACK_WIDGET", "BIND_WIDGET",
     "WATCH_STATE", "DEF_PROC", "HTTP_GET", "CALL_PROC"}

\* the commands whose code starts at the i-th instruction or later: one for
\* each instruction that ends a command, and one for each event or callback
\* child, whose DEF_BLOCK and name BIND_WIDGET n and HTTP_GET n count
RECURSIVE endedFrom(_, _)
endedFrom(code, i) ==
    IF i > Len(code) THEN 0
    ELSE (IF opcodeOf(code[i]) \in EndOpcodes THEN 1 ELSE 0)
         + (IF opcodeOf(code[i]) \in {"BIND_WIDGET", "HTTP_GET"} THEN operandOf(code[i]) ELSE 0)
         + endedFrom(code, i + 1)

\* the commands that contributed to a chunk or to a block of its pool
RECURSIVE commandsCompiled(_, _)
RECURSIVE compiledInPool(_, _)
compiledInPool(pool, k) ==
    IF k > Len(pool) THEN 0
    ELSE (IF pool[k].t = "block"
          THEN commandsCompiled(pool[k].bytecode, pool[k].constants) ELSE 0)
         + compiledInPool(pool, k + 1)

commandsCompiled(code, pool) == endedFrom(code, 1) + compiledInPool(pool, 1)

\* a command that is not bind, watch, proc or http.get and has children
HasNestedUnderPlainCommand ==
    \E k \in 1..Len(programNode.body) :
        /\ programNode.body[k].name.value \notin {W_bind, W_watch, W_proc, W_httpdot_get}
        /\ ~programNode.body[k].body.isNull
        /\ programNode.body[k].body.items # <<>>

\* C38 -- No command is silently dropped by the compiler: every Command node
\* of the Program, at any depth, contributes instructions to exactly one
\* chunk, the top-level chunk or the chunk of its nearest enclosing block;
\* this includes the children of a command that is not bind, watch, proc or
\* http.get, such as the widgets nested under `c root`.
C38_NoCommandDropped ==
    cpc = "done" => commandsCompiled(bytecode, constants) = commandsIn(programNode.body)

\* without children under a plain command, every command is compiled
C38_NoCommandDroppedUnderBlocks ==
    (cpc = "done" /\ ~HasNestedUnderPlainCommand) =>
        commandsCompiled(bytecode, constants) = commandsIn(programNode.body)

\* `c w` with a label nested under it has compiled to a call of c alone
C38_ChildrenDropped ==
    /\ cpc = "done"
    /\ Len(programNode.body) = 1
    /\ programNode.body[1].name.value = W_c
    /\ commandsIn(programNode.body) = 2
    /\ \A i \in 1..Len(bytecode) : opcodeOf(bytecode[i]) # "CREATE_WIDGET"
    /\ opcodeOf(bytecode[Len(bytecode)]) = "CALL_PROC"

----------------------------------------------------------------------------
(* Runtime: the watcher lists only grow, and every watcher is called *)

\* the watchers registered for a name, none when the name has no list
watchersOf(registry, name) == IF mapHas(registry, name) THEN mapGet(registry, name) ELSE <<>>

\* every list is kept as a prefix of what it becomes
C39_AppendOnly ==
    /\ Len(watchers') >= Len(watchers)
    /\ \A k \in 1..Len(watchers) :
          /\ watchers'[k][1] = watchers[k][1]
          /\ Len(watchers'[k][2]) >= Len(watchers[k][2])
          /\ SubSeq(watchers'[k][2], 1, Len(watchers[k][2])) = watchers[k][2]

\* WATCH_STATE adds one watcher, also when the same block is registered
C39_WatchAddsOne ==
    Executing("WATCH_STATE") =>
        watchersOf(watchers', top(stack)) =
            Append(watchersOf(watchers, top(stack)), top(pop(stack)))

\* SET_STATE of a name starts a forEach over all the watchers of the name
C39_SetStateVisitsAll ==
    (Executing("SET_STATE") /\ mapHas(watchers, top(stack))) =>
        /\ frames'[Len(frames')].kind = "forEach"
        /\ frames'[Len(frames')].name = top(stack)
        /\ frames'[Len(frames')].n = Len(mapGet(watchers, top(stack)))
        /\ frames'[Len(frames')].k = 0

\* the watchers a forEach on the call stack has called, the one it is
\* calling in this step included
calledBy(i) ==
    IF i = Len(frames) /\ frames[i].k < frames[i].n THEN frames[i].k + 1 ELSE frames[i].k

\* a forEach leaves the call stack only after it has called all its watchers
C39_ForEachCallsAll ==
    \A i \in 1..Len(frames) :
        (frames[i].kind = "forEach" /\ Len(frames') < i) => calledBy(i) = frames[i].n

C39_Step ==
    C39_AppendOnly /\ C39_WatchAddsOne /\ C39_SetStateVisitsAll /\ C39_ForEachCallsAll

\* C39 -- Watcher lists are append-only: no operation removes or reorders a
\* registered watcher, and executing the same `watch v` code k times (for
\* example from an event handler that fires k times) leaves k watchers for
\* v, each of which fires on every later SET_STATE of v.
C39_WatchersAppendOnly == [][C39_Step]_vars

\* the lists only grow, WATCH_STATE adds one watcher, and SET_STATE starts
\* a forEach over all of them
C39_StepGrowth == C39_AppendOnly /\ C39_WatchAddsOne /\ C39_SetStateVisitsAll

C39_WatchersOnlyGrow == [][C39_StepGrowth]_vars

\* two clicks have registered the same block twice for a, and the second
\* click's SET_STATE has called both
C39_RegisteredTwice ==
    /\ events = 2
    /\ Len(watchersOf(watchers, String(A))) = 2
    /\ watchersOf(watchers, String(A))[1] = watchersOf(watchers, String(A))[2]
    /\ lastForEach.fired = watchersOf(watchers, String(A))

\* the first of two watchers of a called an undefined procedure: the run
\* has failed and the second watcher, which sets b, was never called
C39_SecondWatcherSkipped ==
    /\ vpc = "failed"
    /\ verror = ErrProcedureNotFound(String(P))
    /\ Len(watchersOf(watchers, String(A))) = 2
    /\ mapHas(state, String(A))
    /\ ~mapHas(state, String(B))

----------------------------------------------------------------------------
(* Parser: the body stack of _buildTree *)

\* the for loop of _buildTree has processed a line without throwing
LineProcessed == ppc \in {"build", "done"} /\ lineIdx > 1 /\ perror = NoError

\* C40 -- During tree construction, after each analysed line is processed
\* the body stack holds exactly current_indent + 1 entries, its bottom entry
\* is Program.body, its top entry is the body that contains the command
\* just appended, and the stack is never popped empty.
C40_BodyStackShape ==
    /\ bodyStack # <<>>
    /\ LineProcessed =>
          /\ Len(bodyStack) = currentIndent + 1
          /\ bodyStack[1] = 1
          /\ arrays[Last(bodyStack)] # <<>>
          /\ Last(arrays[Last(bodyStack)]) = Len(nodes)
          /\ Len(nodes) = lineIdx - 1

\* a line two levels deep has been followed by a line at level 0: two
\* bodies were popped at once and the stack is back to Program.body
C40_Witness ==
    /\ LineProcessed
    /\ lineIdx = 5
    /\ processedLines[3].indent = 2
    /\ processedLines[4].indent = 0
    /\ bodyStack = <<1>>
    /\ Len(arrays) = 3

====
